---- MODULE Spec2Model ----
(***************************************************************************)
(* tooldantic: the schema renderer chain (schema_generators.py) and the    *)
(* model builder (builder.py).                                             *)
(*                                                                         *)
(* JSON documents are tagged values.  A Python dict is an ORDERED mapping, *)
(* so it is a sequence of key/value entries with pairwise distinct keys;   *)
(* a list is a sequence of values.                                         *)
(***************************************************************************)
EXTENDS Integers, Sequences, FiniteSets, TLC

VARIABLES
    schema,     \* the input document: what pydantic's own generate() hands to
                \* the chain, or the example data / JSON schema given to the builder
    op,         \* the operation applied last
    arg,        \* the argument of that operation besides the input document
    out,        \* what that operation returned (or the exception it raised)
    options,    \* class attributes of CompatibilitySchemaGenerator
    builder,    \* the fields of the ModelBuilder instance
    model,      \* the model class built last, with the entry point that built
                \* it and the arguments of that call
    rendered,   \* what each generator class rendered the first time it was used
    func_dispatch   \* ToolDispatch.func_dispatch: the tools by key, in order

vars == <<schema, op, arg, out, options, builder, model, rendered, func_dispatch>>

---------------------------------------------------------------------------
(* JSON values *)

Str(s) == [t |-> "str", s |-> s]
Num(n) == [t |-> "num", n |-> n]
Bool(b) == [t |-> "bool", b |-> b]
Null == [t |-> "null"]
\* (concatenating makes TLC build the sequence once, as a tuple)
List(items) == [t |-> "list", it |-> items \o <<>>]
Dict(entries) == [t |-> "dict", kv |-> entries \o <<>>]
KV(key, value) == [k |-> key, v |-> value]
Raise(exc) == [t |-> "raise", exc |-> exc]

IsDict(x) == x.t = "dict"
IsList(x) == x.t = "list"
IsStr(x) == x.t = "str"
IsRaise(x) == x.t = "raise"

\* the first raised exception among the values of a sequence, evaluated left to right
AnyRaise(items) == \E i \in 1..Len(items) : IsRaise(items[i])
FirstRaise(items) ==
    items[CHOOSE i \in 1..Len(items) :
            IsRaise(items[i]) /\ \A j \in 1..(i - 1) : ~IsRaise(items[j])]

Range(seq) == {seq[i] : i \in 1..Len(seq)}
Keys(d) == [i \in 1..Len(d.kv) |-> d.kv[i].k]
Values(d) == [i \in 1..Len(d.kv) |-> d.kv[i].v]
KeySet(d) == {d.kv[i].k : i \in 1..Len(d.kv)}
Has(d, key) == \E i \in 1..Len(d.kv) : d.kv[i].k = key
Get(d, key) == d.kv[CHOOSE i \in 1..Len(d.kv) : d.kv[i].k = key].v
\* dict.get(key, default)
GetOr(d, key, default) == IF Has(d, key) THEN Get(d, key) ELSE default
\* d[key] = value: an existing key keeps its position, a new key goes last
Set(d, key, value) ==
    IF Has(d, key)
    THEN Dict([i \in 1..Len(d.kv) |->
                 IF d.kv[i].k = key THEN KV(key, value) ELSE d.kv[i]])
    ELSE Dict(Append(d.kv, KV(key, value)))
\* d.pop(key, None) as far as d is concerned
Pop(d, key) == Dict(SelectSeq(d.kv, LAMBDA e : e.k # key))
\* d.update(e)
RECURSIVE UpdateFrom(_, _, _)
UpdateFrom(d, e, i) ==
    IF i > Len(e.kv) THEN d
    ELSE UpdateFrom(Set(d, e.kv[i].k, e.kv[i].v), e, i + 1)
Update(d, e) == UpdateFrom(d, e, 1)

StrList(names) == List([i \in 1..Len(names) |-> Str(names[i])])

---------------------------------------------------------------------------
(* CompatibilitySchemaGenerator: the passes *)

key_order == <<"name", "title", "type", "description", "strict", "format",
               "enum", "properties", "required", "items", "additionalProperties">>

\* value.split("/")[-1] of the reference strings that occur ("#" has no "/")
DefNames == <<"InnerModel", "Node">>
RefTo(name) ==
    CASE name = "InnerModel" -> "#/$defs/InnerModel"
      [] name = "Node" -> "#/$defs/Node"
      [] OTHER -> "#/$defs/" \o name
RefKey(s) ==
    CASE s = "#/$defs/InnerModel" -> "InnerModel"
      [] s = "#/$defs/Node" -> "Node"
      [] s = "#/$defs/NestedModel_Item" -> "NestedModel_Item"
      [] s = "#/$defs/NestedModel_Inner" -> "NestedModel_Inner"
      [] OTHER -> s

\* line 60: the test that decides between the marker and the expansion
IsRevisit(ref_key, visited) == ref_key \in visited

MarkRecursion_Skip(cur, key) == cur
\* line 62
MarkRecursion(cur, key) == Set(cur, key, Str("#"))

RECURSIVE _inline_references(_, _, _)
RECURSIVE InlineKeys(_, _, _, _, _, _)
RECURSIVE InlineItems(_, _, _, _, _)

\* The loop over list(schema.items()): snap is the snapshot, cur the dict as
\* mutated so far, visited the one set shared by the whole traversal.  A
\* snapshot value is the object still held by cur (so it is seen as mutated by
\* the recursive call) unless schema.update(...) replaced it: those keys are stale.
InlineKeys(snap, i, cur, definitions, visited, stale) ==
    IF i > Len(snap) THEN [doc |-> cur, visited |-> visited]
    ELSE
      LET key == snap[i].k IN
      IF key = "$ref" THEN
        LET value == snap[i].v IN
        IF ~IsStr(value) THEN [doc |-> Raise("AttributeError"), visited |-> visited]
        ELSE
          LET ref_key == RefKey(value.s) IN
          IF IsRevisit(ref_key, visited)
          THEN InlineKeys(snap, i + 1, MarkRecursion(cur, key), definitions,
                          visited, stale)
          ELSE
            LET known == Has(definitions, ref_key)
                cur1 == IF known
                        THEN Pop(Update(cur, Get(definitions, ref_key)), "$ref")
                        ELSE cur
                r == _inline_references(cur1, definitions, visited \cup {ref_key})
            IN IF IsRaise(r.doc) THEN r
               ELSE InlineKeys(snap, i + 1, r.doc, definitions, r.visited,
                               IF known
                               THEN stale \cup KeySet(Get(definitions, ref_key))
                               ELSE stale)
      ELSE
        LET value == IF key \in stale THEN snap[i].v ELSE Get(cur, key)
            r == _inline_references(value, definitions, visited)
        IN IF IsRaise(r.doc) THEN r
           ELSE InlineKeys(snap, i + 1, Set(cur, key, r.doc), definitions,
                           r.visited, stale)

InlineItems(items, i, acc, definitions, visited) ==
    IF i > Len(items) THEN [doc |-> List(acc), visited |-> visited]
    ELSE LET r == _inline_references(items[i], definitions, visited)
         IN IF IsRaise(r.doc) THEN r
            ELSE InlineItems(items, i + 1, Append(acc, r.doc), definitions, r.visited)

_inline_references(json, definitions, visited) ==
    IF IsDict(json) THEN InlineKeys(json.kv, 1, json, definitions, visited, {})
    ELSE IF IsList(json) THEN InlineItems(json.it, 1, <<>>, definitions, visited)
    ELSE [doc |-> json, visited |-> visited]

RECURSIVE _inline_all_of(_)
_inline_all_of(json) ==
    IF IsDict(json) THEN
      IF Has(json, "allOf") /\ IsList(Get(json, "allOf"))
                            /\ Len(Get(json, "allOf").it) = 1
      THEN LET inlined_schema == _inline_all_of(Get(json, "allOf").it[1])
           IN IF IsDict(inlined_schema)
              THEN Pop(Update(json, inlined_schema), "allOf")
              ELSE Set(json, "allOf", List(<<inlined_schema>>))
      ELSE Dict([i \in 1..Len(json.kv) |->
                   KV(json.kv[i].k, _inline_all_of(json.kv[i].v))])
    ELSE IF IsList(json)
    THEN List([i \in 1..Len(json.it) |-> _inline_all_of(json.it[i])])
    ELSE json

\* line 84: the priority keys that are present, in key_order
OrderedKeys(json) == SelectSeq(key_order, LAMBDA k : Has(json, k))
\* line 86: the remaining keys, in their original order
RemainingKeys(json) ==
    SelectSeq(Keys(json), LAMBDA k : \A i \in 1..Len(key_order) : key_order[i] # k)

RECURSIVE _reorder_keys(_)
_reorder_keys(json) ==
    IF ~IsDict(json) THEN json
    ELSE LET first == OrderedKeys(json)
             rest == RemainingKeys(json)
         IN Dict([i \in 1..(Len(first) + Len(rest)) |->
                    IF i <= Len(first)
                    THEN KV(first[i], _reorder_keys(Get(json, first[i])))
                    ELSE LET k == rest[i - Len(first)]
                         IN KV(k, _reorder_keys(_reorder_keys(Get(json, k))))])

\* line 93: the entries the pass drops
IsTargetEntry(key, value, target_key) == key = target_key /\ IsStr(value)

RECURSIVE _remove_target_key(_, _)
_remove_target_key(json, target_key) ==
    IF IsDict(json) THEN
      LET kept == SelectSeq(json.kv,
                            LAMBDA e : ~IsTargetEntry(e.k, e.v, target_key))
      IN Dict([i \in 1..Len(kept) |->
                 KV(kept[i].k, _remove_target_key(kept[i].v, target_key))])
    ELSE IF IsList(json)
    THEN List([i \in 1..Len(json.it) |-> _remove_target_key(json.it[i], target_key)])
    ELSE json

\* lines 131-133
StrictAdditionalProperties(json) ==
    IF GetOr(json, "type", Null) = Str("object") /\ ~Has(json, "additionalProperties")
    THEN Set(json, "additionalProperties", Bool(FALSE))
    ELSE json

StrictRequired_WithoutDefault(properties) ==
    StrList(SelectSeq(Keys(properties),
                      LAMBDA k : ~Has(Get(properties, k), "default")))
\* line 139
StrictRequired(properties) == StrList(Keys(properties))

RECURSIVE _ensure_strict_json_schema(_)

\* every value of a dict put through the pass (the first exception wins)
StrictValues(d) ==
    LET vals == [i \in 1..Len(d.kv) |-> _ensure_strict_json_schema(d.kv[i].v)] \o <<>>
    IN IF AnyRaise(vals) THEN FirstRaise(vals)
       ELSE Dict([i \in 1..Len(d.kv) |-> KV(d.kv[i].k, vals[i])])
\* every member of a list put through the pass
StrictMembers(l) ==
    LET vals == [i \in 1..Len(l.it) |-> _ensure_strict_json_schema(l.it[i])] \o <<>>
    IN IF AnyRaise(vals) THEN FirstRaise(vals) ELSE List(vals)

\* json[key] = done, unless producing done raised
SetUnlessRaise(json, key, done) == IF IsRaise(done) THEN done ELSE Set(json, key, done)

\* Each step below leaves a document alone when an earlier step raised.
\* lines 137-145
StrictProperties(json) ==
    IF IsRaise(json) \/ ~IsDict(GetOr(json, "properties", Null)) THEN json
    ELSE SetUnlessRaise(Set(json, "required", StrictRequired(Get(json, "properties"))),
                        "properties", StrictValues(Get(json, "properties")))
\* lines 148-152: only a LIST under items is handed on (and then refused)
StrictItems(json) ==
    IF IsRaise(json) \/ ~IsList(GetOr(json, "items", Null)) THEN json
    ELSE SetUnlessRaise(json, "items", _ensure_strict_json_schema(Get(json, "items")))
\* lines 154-166, for key "anyOf" and for key "allOf"
StrictBranches(json, key) ==
    IF IsRaise(json) \/ ~IsList(GetOr(json, key, Null)) THEN json
    ELSE SetUnlessRaise(json, key, StrictMembers(Get(json, key)))
\* lines 167-177, for key "$defs" and for key "definitions": each entry is
\* mutated in place
StrictDefinitions(json, key) ==
    IF IsRaise(json) \/ ~IsDict(GetOr(json, key, Null)) THEN json
    ELSE SetUnlessRaise(json, key, StrictValues(Get(json, key)))

_ensure_strict_json_schema(json) ==
    IF ~IsDict(json) THEN Raise("TypeError")
    ELSE StrictDefinitions(
           StrictDefinitions(
             StrictBranches(
               StrictBranches(
                 StrictItems(StrictProperties(StrictAdditionalProperties(json))),
                 "anyOf"),
               "allOf"),
             "$defs"),
           "definitions")

---------------------------------------------------------------------------
(* The generator classes.  An attribute is looked up along the class's        *)
(* inheritance chain; CompatibilitySchemaGenerator's own attributes are the   *)
(* variable options.                                                           *)

Generators == {"Compatibility", "Generic", "Google", "StrictBase", "OpenAiStrict",
               "OpenAiResponseFormat", "OpenAi", "Anthropic"}

OptionNames == {"is_reordered_keys", "is_removed_titles", "is_inlined_refs",
                "is_apply_strict_rules"}

\* lines 29-32
DefaultOptions == [n \in OptionNames |-> FALSE]

ClassAttr_NoOverride(g, name, opts) ==
    CASE g \in {"Compatibility", "Generic", "Google", "Anthropic"} -> opts[name]
      [] g \in {"StrictBase", "OpenAiResponseFormat", "OpenAiStrict"} -> TRUE
      [] g = "OpenAi" -> name # "is_apply_strict_rules"
\* lines 214-217, 240, 267
ClassAttr(g, name, opts) ==
    CASE g \in {"Compatibility", "Generic", "Google", "Anthropic"} -> opts[name]
      [] g \in {"StrictBase", "OpenAiResponseFormat"} -> TRUE
      [] g = "OpenAiStrict" -> name # "is_inlined_refs"
      [] g = "OpenAi" -> name \notin {"is_inlined_refs", "is_apply_strict_rules"}

\* lines 41-42
InlineAll(r) == IF IsRaise(r.doc) THEN r.doc ELSE _inline_all_of(r.doc)
\* lines 39-42
InliningPass(json) ==
    IF ~Has(json, "$defs") THEN json
    ELSE InlineAll(_inline_references(Pop(json, "$defs"), Get(json, "$defs"), {}))

\* lines 45-49
TitlePass(json, title) ==
    Set(_remove_target_key(Pop(json, "title"), "title"),
        "title", GetOr(json, "title", title))

\* lines 37-38
StrictStep(g, json, opts) ==
    IF ClassAttr(g, "is_apply_strict_rules", opts)
    THEN _ensure_strict_json_schema(json) ELSE json
\* lines 39-42; an exception raised before ends generate
InlineStep(g, json, opts) ==
    IF ~IsRaise(json) /\ ClassAttr(g, "is_inlined_refs", opts)
    THEN InliningPass(json) ELSE json
\* lines 43-44
ReorderStep(g, json, opts) ==
    IF ~IsRaise(json) /\ ClassAttr(g, "is_reordered_keys", opts)
    THEN _reorder_keys(json) ELSE json
\* lines 45-49
TitleStep(g, json, title, opts) ==
    IF ~IsRaise(json) /\ ClassAttr(g, "is_removed_titles", opts)
    THEN TitlePass(json, title) ELSE json

\* CompatibilitySchemaGenerator.generate, lines 34-50
CompatibilityGenerate(g, base, opts) ==
    TitleStep(g,
              ReorderStep(g, InlineStep(g, StrictStep(g, base, opts), opts), opts),
              GetOr(base, "title", Null), opts)

\* lines 187-195
GenericEnvelope(json_schema) ==
    IF IsRaise(json_schema) THEN json_schema
    ELSE Dict(<<KV("name", GetOr(json_schema, "title", Str("function"))),
                KV("description", GetOr(json_schema, "description", Str(""))),
                KV("parameters", Pop(Pop(json_schema, "title"), "description"))>>)
\* GenericSchemaGenerator.generate, lines 186-195
GenericGenerate(g, base, opts) == GenericEnvelope(CompatibilityGenerate(g, base, opts))

\* lines 205-206
GoogleStrip(json_schema) ==
    IF IsRaise(json_schema) THEN json_schema
    ELSE _remove_target_key(json_schema, "default")
\* GoogleSchemaGenerator.generate, lines 203-206
GoogleGenerate(g, base, opts) == GoogleStrip(GenericGenerate(g, base, opts))

\* lines 220-232
StrictBaseEnvelope(json_schema) ==
    IF IsRaise(json_schema) THEN json_schema
    ELSE Dict(<<KV("name", GetOr(json_schema, "title", Str("function"))),
                KV("description", GetOr(json_schema, "description", Str(""))),
                KV("strict", Bool(TRUE)),
                KV("parameters", Pop(Pop(json_schema, "title"), "description"))>>)
\* StrictBaseSchemaGenerator.generate, lines 219-232
StrictBaseGenerate(g, base, opts) ==
    StrictBaseEnvelope(CompatibilityGenerate(g, base, opts))

\* lines 244-248
OpenAiStrictEnvelope(json_schema) ==
    IF IsRaise(json_schema) THEN json_schema
    ELSE Dict(<<KV("type", Str("function")), KV("function", json_schema)>>)
\* OpenAiStrictSchemaGenerator.generate, lines 242-248
OpenAiStrictGenerate(g, base, opts) ==
    OpenAiStrictEnvelope(StrictBaseGenerate(g, base, opts))

\* lines 258-263
OpenAiResponseFormatEnvelope(json_schema) ==
    IF IsRaise(json_schema) THEN json_schema
    ELSE Dict(<<KV("type", Str("json_schema")),
                KV("json_schema", Set(Pop(json_schema, "parameters"), "schema",
                                      Get(json_schema, "parameters")))>>)
\* OpenAiResponseFormatGenerator.generate, lines 256-263
OpenAiResponseFormatGenerate(g, base, opts) ==
    OpenAiResponseFormatEnvelope(StrictBaseGenerate(g, base, opts))

\* lines 277-278
AnthropicEnvelope(json_schema) ==
    IF IsRaise(json_schema) THEN json_schema
    ELSE Set(Pop(json_schema, "parameters"), "input_schema",
             Get(json_schema, "parameters"))
\* AnthropicSchemaGenerator.generate, lines 275-278
AnthropicGenerate(g, base, opts) == AnthropicEnvelope(GenericGenerate(g, base, opts))

\* the generate method class g resolves to
Generate(g, base, opts) ==
    CASE g = "Compatibility" -> CompatibilityGenerate(g, base, opts)
      [] g = "Generic" -> GenericGenerate(g, base, opts)
      [] g = "Google" -> GoogleGenerate(g, base, opts)
      [] g = "StrictBase" -> StrictBaseGenerate(g, base, opts)
      [] g \in {"OpenAiStrict", "OpenAi"} -> OpenAiStrictGenerate(g, base, opts)
      [] g = "OpenAiResponseFormat" -> OpenAiResponseFormatGenerate(g, base, opts)
      [] g = "Anthropic" -> AnthropicGenerate(g, base, opts)

---------------------------------------------------------------------------
(* The documents the chain starts from: what pydantic's GenerateJsonSchema     *)
(* emits (line 35) for a model class.  Keywords come out sorted, properties    *)
(* in declaration order, every nested model class as a named definition.       *)

MaxProps == 2

TitleOf(name) ==
    CASE name = "name" -> "Name"
      [] name = "age" -> "Age"
      [] name = "inner" -> "Inner"
      [] name = "title" -> "Title"
      [] name = "item" -> "Item"
      [] name = "tags" -> "Tags"
      [] name = "is_student" -> "Is Student"
      [] OTHER -> name

NullBranch == Dict(<<KV("type", Str("null"))>>)
Ref(d) == Dict(<<KV("$ref", Str(RefTo(d)))>>)

\* the kinds of field: required scalar; a default of each JSON type; a required
\* sub-model, a list of sub-models, a described sub-model (the allOf idiom)
DefaultKinds == {"str_default", "num_default", "bool_default", "null_default",
                 "list_default", "dict_default"}
ScalarKinds == {[kind |-> "str"]} \cup {[kind |-> k] : k \in DefaultKinds}
RefKinds ==
    {[kind |-> "str"], [kind |-> "ref", to |-> "InnerModel"],
     [kind |-> "ref", to |-> "Node"], [kind |-> "array", to |-> "InnerModel"],
     [kind |-> "allof", to |-> "InnerModel"]}

HasDefault(f) == f.kind \in DefaultKinds

FieldSchema(f, name) ==
    CASE f.kind = "str" ->
           Dict(<<KV("title", Str(TitleOf(name))), KV("type", Str("string"))>>)
      [] f.kind = "str_default" ->
           Dict(<<KV("default", Str("John")), KV("title", Str(TitleOf(name))),
                  KV("type", Str("string"))>>)
      [] f.kind = "num_default" ->
           Dict(<<KV("default", Num(30)), KV("title", Str(TitleOf(name))),
                  KV("type", Str("integer"))>>)
      [] f.kind = "bool_default" ->
           Dict(<<KV("default", Bool(FALSE)), KV("title", Str(TitleOf(name))),
                  KV("type", Str("boolean"))>>)
      [] f.kind = "null_default" ->
           Dict(<<KV("anyOf", List(<<Dict(<<KV("type", Str("string"))>>), NullBranch>>)),
                  KV("default", Null), KV("title", Str(TitleOf(name)))>>)
      [] f.kind = "list_default" ->
           Dict(<<KV("default", List(<<Str("a")>>)),
                  KV("items", Dict(<<KV("type", Str("string"))>>)),
                  KV("title", Str(TitleOf(name))), KV("type", Str("array"))>>)
      [] f.kind = "dict_default" ->
           Dict(<<KV("additionalProperties", Dict(<<KV("type", Str("integer"))>>)),
                  KV("default", Dict(<<KV("a", Num(1))>>)),
                  KV("title", Str(TitleOf(name))), KV("type", Str("object"))>>)
      [] f.kind = "ref" -> Ref(f.to)
      [] f.kind = "array" ->
           Dict(<<KV("items", Ref(f.to)), KV("title", Str(TitleOf(name))),
                  KV("type", Str("array"))>>)
      [] f.kind = "allof" ->
           Dict(<<KV("allOf", List(<<Ref(f.to)>>)),
                  KV("description", Str("the inner model"))>>)
      \* rows: List[dict]
      [] f.kind = "rows" ->
           Dict(<<KV("items", Dict(<<KV("type", Str("object"))>>)),
                  KV("title", Str(TitleOf(name))), KV("type", Str("array"))>>)
      \* a described sub-model with json_schema_extra={"not": {"allOf": [...]}}
      [] f.kind = "conditional" ->
           Dict(<<KV("allOf", List(<<Ref(f.to)>>)),
                  KV("description", Str("the inner model")),
                  KV("not", Dict(<<KV("allOf",
                                      List(<<Dict(<<KV("required",
                                                       StrList(<<"child">>))>>)>>))>>))>>)

\* how each nested model class refers on: to no model, or through an optional
\* field child to a model class (itself: direct recursion)
DefSet == {DefNames[i] : i \in 1..Len(DefNames)}
NoLinks == [d \in DefSet |-> "none"]
Links == {NoLinks,
          [NoLinks EXCEPT !["InnerModel"] = "InnerModel"],
          [NoLinks EXCEPT !["InnerModel"] = "Node"],
          [NoLinks EXCEPT !["InnerModel"] = "Node", !["Node"] = "InnerModel"]}

DefSchema(d, link) ==
    Dict(<<KV("properties",
              Dict(<<KV("item", Dict(<<KV("title", Str("Item")),
                                       KV("type", Str("string"))>>))>>
                   \o (IF link[d] = "none" THEN <<>>
                       ELSE <<KV("child",
                                 Dict(<<KV("anyOf", List(<<Ref(link[d]), NullBranch>>)),
                                        KV("default", Null)>>))>>))),
           KV("required", StrList(<<"item">>)),
           KV("title", Str(d)),
           KV("type", Str("object"))>>)

\* the model classes reachable from the ones in from
RECURSIVE ReachableDefs(_, _)
ReachableDefs(from, link) ==
    LET more == (from \cup {link[d] : d \in from}) \ {"none"}
    IN IF more = from THEN from ELSE ReachableDefs(more, link)

DefsSection(from, link) ==
    LET names == SelectSeq(DefNames, LAMBDA d : d \in ReachableDefs(from, link))
    IN IF names = <<>> THEN <<>>
       ELSE <<KV("$defs", Dict([i \in 1..Len(names) |->
                                  KV(names[i], DefSchema(names[i], link))]))>>

Targets(fields) ==
    {fields[i].to : i \in {j \in 1..Len(fields) : fields[j].kind \in {"ref", "array", "allof", "conditional"}}}

\* a model class with the given fields; extra is its config (allow, ignore)
ModelSchema(fields, naming, link, extra) ==
    LET required == SelectSeq([i \in 1..Len(fields) |-> i],
                              LAMBDA i : ~HasDefault(fields[i]))
    IN Dict(DefsSection(Targets(fields), link)
            \o (IF extra = "allow" THEN <<KV("additionalProperties", Bool(TRUE))>>
                ELSE <<>>)
            \o (IF naming[1] = "age"
                THEN <<KV("description", Str("An example."))>> ELSE <<>>)
            \o <<KV("properties",
                    Dict([i \in 1..Len(fields) |->
                            KV(naming[i], FieldSchema(fields[i], naming[i]))]))>>
            \o (IF required = <<>> THEN <<>>
                ELSE <<KV("required",
                          StrList([i \in 1..Len(required) |-> naming[required[i]]]))>>)
            \o <<KV("title", Str("ExampleModel")), KV("type", Str("object"))>>)

\* a model class that is itself recursive: the root is a reference
RecursiveRootSchema(d, link) ==
    Dict(DefsSection({d}, link) \o <<KV("$ref", Str(RefTo(d)))>>)

FieldLists(kinds) == UNION {[1..n -> kinds] : n \in 1..MaxProps}
\* scalar fields, at most one of them with a default
ScalarFieldLists ==
    {fields \in FieldLists(ScalarKinds) :
       \A i, j \in 1..Len(fields) : HasDefault(fields[i]) /\ HasDefault(fields[j]) => i = j}

BaseSchemas ==
    {ModelSchema(fields, <<"name", "age", "inner">>, NoLinks, "ignore") :
        fields \in ScalarFieldLists}
    \cup {ModelSchema(fields, <<"age", "title", "name">>, NoLinks, "allow") :
            fields \in ScalarFieldLists}
    \cup {ModelSchema(fields, <<"name", "age", "inner">>, link, "ignore") :
            fields \in FieldLists(RefKinds), link \in Links}
    \cup {RecursiveRootSchema(p[1], p[2]) :
            p \in {q \in DefSet \X Links : q[2][q[1]] # "none"}}

---------------------------------------------------------------------------
(* ModelBuilder (builder.py).  Python values that are no JSON: type objects, *)
(* the Ellipsis, inspect's _Empty, FieldInfo objects and model classes.      *)

\* a float that is no whole number, 1.5
Float == [t |-> "float", x |-> "1.5"]
Type(name) == [t |-> "type", name |-> name]
ListOf(item) == [t |-> "List", item |-> item]
LiteralOf(values) == [t |-> "Literal", values |-> values]
Ellipsis == [t |-> "ellipsis"]
Empty == [t |-> "empty"]
\* typing.Optional[item] and typing.Annotated[item, *metadata]
OptionalOf(item) == [t |-> "Optional", item |-> item]
AnnotatedOf(item, metadata) == [t |-> "Annotated", item |-> item, metadata |-> metadata]
\* pydantic.Field(default=..., description=..., **constraints)
FieldInfo(default, description, constraints) ==
    [t |-> "FieldInfo", default |-> default, description |-> description,
     constraints |-> constraints]
\* pydantic.create_model(name, __base__=base, __doc__=doc, **fields): the
\* class takes its configuration (extra) from its base
\* and inherits the class attributes of its base
ModelClass(name, base, doc, fields) ==
    [t |-> "model", name |-> name, base |-> base.name, extra |-> base.extra,
     doc |-> doc, fields |-> fields, _schema_generator |-> base._schema_generator,
     schema_generator |-> base.schema_generator]
FieldDef(name, type, default) == [name |-> name, type |-> type, default |-> default]

IsModel(x) == x.t = "model"

\* the base classes: pydantic.BaseModel, models.py ToolBaseModel (line 17), and
\* a subclass configured with extra="forbid"
\* a base class: its name, its configuration and the class attributes that
\* models.py defines (None where the class has no such attribute)
BaseClass(name, extra, schema_generator) ==
    [name |-> name, extra |-> extra, _schema_generator |-> "None",
     schema_generator |-> schema_generator]
BaseModel == BaseClass("BaseModel", "ignore", "None")
ToolBaseModel == BaseClass("ToolBaseModel", "ignore", "None")
\* models.py lines 49-73: each dialect base model sets schema_generator
OpenAiBaseModel == BaseClass("OpenAiBaseModel", "ignore", "OpenAi")
OpenAiStrictBaseModel == BaseClass("OpenAiStrictBaseModel", "ignore", "OpenAiStrict")
OpenAiResponseFormatBaseModel ==
    BaseClass("OpenAiResponseFormatBaseModel", "ignore", "OpenAiResponseFormat")
AnthropicBaseModel == BaseClass("AnthropicBaseModel", "ignore", "Anthropic")
GoogleBaseModel == BaseClass("GoogleBaseModel", "ignore", "Google")
GenericBaseModel == BaseClass("GenericBaseModel", "ignore", "Generic")
DialectBaseModels ==
    {OpenAiBaseModel, OpenAiStrictBaseModel, OpenAiResponseFormatBaseModel,
     AnthropicBaseModel, GoogleBaseModel, GenericBaseModel}

\* models.py lines 25-32
model_bind_schema_generator(cls, schema_generator) ==
    [cls EXCEPT !._schema_generator = schema_generator]

\* the generator that model_json_schema takes the class attribute
\* schema_generator for
SchemaGeneratorOf_ClassAttribute(cls, schema_generator) ==
    IF schema_generator # "None" THEN schema_generator
    ELSE IF cls.schema_generator # "None" THEN cls.schema_generator
    ELSE IF cls._schema_generator # "None" THEN cls._schema_generator
    ELSE "Compatibility"
\* models.py lines 37-39: the argument, else the bound generator, else the
\* compatibility generator
SchemaGeneratorOf(cls, schema_generator) ==
    IF schema_generator # "None" THEN schema_generator
    ELSE IF cls._schema_generator # "None" THEN cls._schema_generator
    ELSE "Compatibility"

\* models.py lines 35-46: json_schema is what pydantic generates for the class
model_json_schema(cls, schema_generator, json_schema, opts) ==
    Generate(SchemaGeneratorOf(cls, schema_generator), json_schema, opts)
TbmNoExtra == BaseClass("TbmNoExtra", "forbid", "None")

\* the fields of a ModelBuilder with their defaults, lines 45-48
DefaultBuilder ==
    [base_model |-> ToolBaseModel, default_type_for_none |-> Type("Any"),
     is_set_defaults_from_values |-> FALSE, is_parse_docstrings |-> FALSE]
\* the builders: the base model ignores or forbids unknown keys, the
\* configuration flag is off or on
Builders ==
    {[DefaultBuilder EXCEPT !.base_model = b, !.is_set_defaults_from_values = f] :
        b \in {ToolBaseModel, TbmNoExtra}, f \in BOOLEAN}

\* no model class built yet
NoModel == [by |-> "none", args |-> Null, cls |-> Null]

\* str.capitalize() of the field names that occur
Capitalize(name) ==
    CASE name = "name" -> "Name"
      [] name = "age" -> "Age"
      [] name = "is_student" -> "Is_student"
      [] name = "score" -> "Score"
      [] name = "inner" -> "Inner"
      [] name = "inner_item" -> "Inner_item"
      [] name = "tags" -> "Tags"
      [] name = "tags_item" -> "Tags_item"
      [] OTHER -> name

TypeOf_Str(value) == Type("str")
\* type(value)
TypeOf(value) ==
    CASE value.t = "str" -> Type("str")
      [] value.t = "num" -> Type("int")
      [] value.t = "float" -> Type("float")
      [] value.t = "bool" -> Type("bool")
      [] value.t = "null" -> Type("NoneType")
      [] value.t = "list" -> Type("list")
      [] value.t = "dict" -> Type("dict")
      [] value.t = "ellipsis" -> Type("ellipsis")
      [] value.t = "FieldInfo" -> Type("FieldInfo")
      [] OTHER -> Type("type")

\* utils.py is_type_or_annotation, lines 38-58
is_type_or_annotation(obj) == obj.t \in {"type", "List", "Literal", "model"}

\* builder.py lines 309-313
EffectiveDefault_Always(default, use_defaults, use_descriptions) ==
    IF use_descriptions /\ IsStr(default)
    THEN FieldInfo(Ellipsis, default, Dict(<<>>))
    ELSE IF default = Empty THEN Ellipsis ELSE default
EffectiveDefault(default, use_defaults, use_descriptions) ==
    IF use_descriptions /\ IsStr(default)
    THEN FieldInfo(Ellipsis, default, Dict(<<>>))
    ELSE IF ~use_defaults \/ default = Empty THEN Ellipsis
    ELSE default

RECURSIVE model_from_dict(_, _, _, _, _)
RECURSIVE _process_field(_, _, _, _, _, _, _)

\* lines 270-291
_create_pydantic_model(self, model_name, fields, model_description) ==
    ModelClass(model_name, self.base_model,
               IF model_description = Null \/ model_description = Str("")
               THEN Str(" ") ELSE model_description,
               fields)

\* lines 389-399
_handle_list_default(self, default, model_name) ==
    IF default.it = <<>> THEN ListOf(Type("Any"))
    ELSE LET item == default.it[1]
         IN IF IsDict(item)
            THEN ListOf(model_from_dict(self, item, model_name \o "_Item",
                                        FALSE, FALSE))
            ELSE ListOf(IF is_type_or_annotation(item) THEN item ELSE TypeOf(item))

\* lines 413-419
_interpret_schema_dict(self, field_name, value) ==
    <<model_from_dict(self, value, Capitalize(field_name) \o "_Model", FALSE, FALSE),
      Ellipsis>>

\* lines 359-377: the pair (annotation, default)
_handle_empty_annotation(self, default, model_name, field_name) ==
    IF default = Null THEN <<self.default_type_for_none, default>>
    ELSE IF is_type_or_annotation(default) THEN <<default, Ellipsis>>
    ELSE IF IsDict(default)
    THEN <<model_from_dict(self, default, model_name \o "_" \o Capitalize(field_name),
                           FALSE, FALSE),
           Ellipsis>>
    ELSE IF IsList(default)
    THEN <<_handle_list_default(self, default, model_name), Ellipsis>>
    ELSE <<TypeOf(default),
           IF self.is_set_defaults_from_values THEN default ELSE Ellipsis>>

\* lines 379-387
_is_list_type(annotation) == annotation.t \in {"list", "List"}
_handle_list_type(annotation) ==
    ListOf(IF IsList(annotation) THEN annotation.it[1] ELSE annotation.item)

\* lines 401-411
_is_annotated_type(annotation) == annotation.t = "Annotated"
_interpret_annotated_type(annotation, default) ==
    IF \A i \in 1..Len(annotation.metadata) : IsStr(annotation.metadata[i])
    THEN <<annotation.item,
           FieldInfo(default, annotation.metadata[1],
                     IF Len(annotation.metadata) > 1
                     THEN Dict(<<KV("examples", List(Tail(annotation.metadata)))>>)
                     ELSE Dict(<<>>))>>
    ELSE <<annotation, default>>

\* lines 293-357: the pair (type, default) of the field
_process_field(self, field_name, model_name, annotation0, default, use_defaults, use_descriptions) ==
    LET effective_default == EffectiveDefault(default, use_defaults, use_descriptions)
        annotation == IF annotation0 = Empty
                      THEN _handle_empty_annotation(self, default, model_name,
                                                    field_name)[1]
                      ELSE annotation0
    IN IF IsDict(annotation) THEN _interpret_schema_dict(self, field_name, annotation)
       ELSE IF IsDict(effective_default)
       THEN _interpret_schema_dict(self, field_name, effective_default)
       ELSE IF _is_list_type(annotation)
       THEN <<_handle_list_type(annotation), effective_default>>
       ELSE IF IsList(effective_default)
       THEN <<_handle_list_default(self, effective_default, model_name),
              effective_default>>
       ELSE IF _is_annotated_type(annotation)
       THEN _interpret_annotated_type(annotation, effective_default)
       ELSE <<annotation, effective_default>>

\* lines 114-135
model_from_dict(self, schema_dict, model_name, is_set_defaults_from_values, is_set_descriptions_from_str_values) ==
    _create_pydantic_model(
        self, model_name,
        [i \in 1..Len(schema_dict.kv) |->
           LET processed_field ==
                 _process_field(self, schema_dict.kv[i].k, model_name, Empty,
                                schema_dict.kv[i].v, is_set_defaults_from_values,
                                is_set_descriptions_from_str_values)
           IN FieldDef(schema_dict.kv[i].k, processed_field[1], processed_field[2])]
          \o <<>>,
        Null)

\* the map with the targets of minimum and maximum exchanged
CONSTRAINTS_MAP_Exchanged == <<KV("minLength", "min_length"), KV("maxLength", "max_length"),
                               KV("maxItems", "max_length"), KV("minItems", "min_length"),
                               KV("minimum", "le"), KV("maximum", "ge"),
                               KV("multipleOf", "multiple_of"), KV("pattern", "pattern")>>

\* lines 31-40, in the order of the dict
CONSTRAINTS_MAP == <<KV("minLength", "min_length"), KV("maxLength", "max_length"),
                     KV("maxItems", "max_length"), KV("minItems", "min_length"),
                     KV("minimum", "ge"), KV("maximum", "le"),
                     KV("multipleOf", "multiple_of"), KV("pattern", "pattern")>>

\* lines 229-231
RECURSIVE ConstraintsFrom(_, _, _)
ConstraintsFrom(details, i, acc) ==
    IF i > Len(CONSTRAINTS_MAP) THEN acc
    ELSE ConstraintsFrom(details, i + 1,
                         IF Has(details, CONSTRAINTS_MAP[i].k)
                         THEN Set(acc, CONSTRAINTS_MAP[i].v,
                                  Get(details, CONSTRAINTS_MAP[i].k))
                         ELSE acc)

\* lines 225, 238-243: the default of the field is the schema's default keyword
\* or the Ellipsis, whatever is_required says
JsonFieldInfo(details, is_required) ==
    FieldInfo(GetOr(details, "default", Ellipsis),
              GetOr(details, "description", Null),
              ConstraintsFrom(details, 1, Dict(<<>>)))

\* lines 232-237
FormatType(format) ==
    CASE format = Str("date") -> Type("date")
      [] format = Str("date-time") -> Type("datetime")
      [] format = Str("email") -> Type("EmailStr")
      [] format = Str("uri") -> Type("AnyUrl")
      [] OTHER -> Type("str")

\* line 266: a nested object becomes a class made by pydantic.create_model
\* with no __base__
NestedBase(self) == BaseModel

RECURSIVE _parse_parameters(_, _, _)
RECURSIVE _map_json_type_to_python(_, _, _, _, _)

\* lines 213-268: the pair (type, FieldInfo)
_map_json_type_to_python(self, details, field_name, parent_model_name, is_required) ==
    LET json_type == GetOr(details, "type", Type("Any"))
        field_info == JsonFieldInfo(details, is_required)
    IN CASE json_type = Str("string") ->
              IF Has(details, "enum")
              THEN <<LiteralOf(Get(details, "enum").it), field_info>>
              ELSE <<FormatType(GetOr(details, "format", Null)), field_info>>
         [] json_type = Str("integer") -> <<Type("int"), field_info>>
         [] json_type = Str("number") -> <<Type("float"), field_info>>
         [] json_type = Str("boolean") -> <<Type("bool"), field_info>>
         [] json_type = Str("array") ->
              <<ListOf(_map_json_type_to_python(
                          self, GetOr(details, "items", Dict(<<>>)),
                          field_name \o "_item", parent_model_name, TRUE)[1]),
                field_info>>
         [] json_type = Str("object") ->
              LET model_name == parent_model_name \o "_" \o Capitalize(field_name)
              IN <<ModelClass(model_name, NestedBase(self), Null,
                              _parse_parameters(self, details, model_name)),
                   field_info>>
         [] OTHER -> <<Type("Any"), field_info>>

\* lines 193-211
_parse_parameters(self, parameters, parent_model_name) ==
    LET required_fields == GetOr(parameters, "required", List(<<>>))
        properties == GetOr(parameters, "properties", Dict(<<>>))
    IN [i \in 1..Len(properties.kv) |->
          LET field_name == properties.kv[i].k
              mapped == _map_json_type_to_python(
                           self, properties.kv[i].v, field_name, parent_model_name,
                           \E j \in 1..Len(required_fields.it) :
                               required_fields.it[j] = Str(field_name))
          IN FieldDef(field_name, mapped[1], mapped[2])] \o <<>>

\* lines 163-174: find_keys; result is a dict, filled in place
RECURSIVE find_keys(_, _, _)
RECURSIVE FindDeeper(_, _, _, _)
FoundHere(schema_part, keys, result, i) ==
    IF Has(schema_part, keys[i]) THEN Set(result, keys[i], Get(schema_part, keys[i]))
    ELSE result
find_keys(schema_part, keys, result) ==
    LET r1 == FoundHere(schema_part, keys, result, 1)
        r2 == FoundHere(schema_part, keys, r1, 2)
        r3 == FoundHere(schema_part, keys, r2, 3)
    IN IF Len(r3.kv) < Len(keys) THEN FindDeeper(schema_part, keys, r3, 1) ELSE r3
FindDeeper(schema_part, keys, result, i) ==
    IF i > Len(schema_part.kv) THEN result
    ELSE FindDeeper(schema_part, keys,
                    IF IsDict(schema_part.kv[i].v)
                    THEN find_keys(schema_part.kv[i].v, keys, result)
                    ELSE result,
                    i + 1)

\* lines 160-191: the triple (name, description, parameters)
_extract_schema_details(json) ==
    LET title_or_name == IF Has(json, "title") THEN "title" ELSE "name"
        inner_schema == IF Has(json, "json_schema") THEN "schema" ELSE "parameters"
        found == find_keys(json, <<title_or_name, "description", inner_schema>>,
                           Dict(<<>>))
        found1 == IF Has(found, "schema")
                  THEN Set(Pop(found, "schema"), "parameters", Get(found, "schema"))
                  ELSE found
        found2 == IF Has(found1, "parameters") THEN found1
                  ELSE Set(found1, "parameters", json)
    IN <<GetOr(found2, title_or_name, Null), GetOr(found2, "description", Null),
         Get(found2, "parameters")>>

\* line 146: model_name or name
NameOr(model_name, name) == IF model_name # Null THEN model_name.s ELSE name.s

\* lines 137-158
model_from_json_schema(self, json, model_name) ==
    LET details == _extract_schema_details(json)
        parameters == details[3]
    IN IF parameters = Null THEN Raise("ValueError")
       ELSE IF Has(parameters, "$defs") THEN Raise("NotImplementedError")
       ELSE _create_pydantic_model(self, NameOr(model_name, details[1]),
                                   _parse_parameters(self, parameters,
                                                     NameOr(model_name, details[1])),
                                   details[2])

\* an exception with the parts of its f-string message
RaiseWith(exc, message) == [t |-> "raise", exc |-> exc, message |-> message]

\* str(value) inside an f-string
PyStr(value) == IF value = Null THEN "None" ELSE value.s

\* the docstring parsed whatever the flags say
DocstringOf_Always(self, func, is_parse_docstrings) ==
    Dict([i \in 1..Len(func.docstring_params) |->
            KV(func.docstring_params[i].arg_name,
               Dict(<<KV("description", func.docstring_params[i].description),
                      KV("type_name", func.docstring_params[i].type_name)>>))])

\* lines 57-72: the parsed docstring, a dict of the documented parameters; the
\* parameters come from docstring_parser.parse(func.__doc__).params
DocstringOf(self, func, is_parse_docstrings) ==
    IF self.is_parse_docstrings \/ is_parse_docstrings
    THEN Dict([i \in 1..Len(func.docstring_params) |->
                 LET p == func.docstring_params[i]
                 IN KV(p.arg_name,
                       Dict(<<KV("description", p.description),
                              KV("type_name",
                                 IF p.is_optional
                                 THEN Str("typing.Optional[" \o PyStr(p.type_name) \o "]")
                                 ELSE p.type_name)>>))])
    ELSE Dict(<<>>)

\* lines 78-82
AnnotationOf(param, docstring) ==
    IF param.annotation = Empty
    THEN GetOr(GetOr(docstring, param.name, Dict(<<>>)), "type_name", Null)
    ELSE param.annotation

\* lines 89-96: the docstring's dicts have no "default" key, so the walrus
\* binds False and the branch is never taken
DefaultOf(param, docstring) ==
    IF param.default # Empty THEN param.default ELSE Empty

\* lines 86-87 and 105: the parts of the f-string (the names are quoted in
\* backticks)
NoAnnotationMessage(name, func) ==
    <<"Parameter ", name, " in function ", func.__name__,
      " has no annotation or docstring type.">>
NoDefaultMessage(name, func) ==
    <<"Parameter ", name, " in function ", func.__name__,
      " has no annotation or default value.">>

\* lines 83-88: an unannotated **kwargs is skipped
IsSkippedKind(kind) == kind = "VAR_KEYWORD"

RECURSIVE FunctionFields(_, _, _, _, _)
\* lines 75-107: the fields of the parameters from the i-th on, added to
\* fields; the loop ends with the fields or with the exception raised
FunctionFields(self, func, docstring, i, fields) ==
    IF i > Len(func.parameters) THEN [t |-> "fields", fields |-> fields]
    ELSE LET param == func.parameters[i]
             annotation == AnnotationOf(param, docstring)
             processed_field ==
                 _process_field(self, param.name, func.__name__, annotation,
                                DefaultOf(param, docstring), TRUE, FALSE)
         IN IF param.name \in {"self", "cls"} /\ param.annotation = Empty
            THEN FunctionFields(self, func, docstring, i + 1, fields)
            ELSE IF annotation = Null
            THEN IF IsSkippedKind(param.kind)
                 THEN FunctionFields(self, func, docstring, i + 1, fields)
                 ELSE RaiseWith("ToolError", NoAnnotationMessage(param.name, func))
            ELSE IF processed_field = <<Empty, Ellipsis>>
            THEN RaiseWith("ToolError", NoDefaultMessage(param.name, func))
            ELSE FunctionFields(self, func, docstring, i + 1,
                                Append(fields,
                                       FieldDef(param.name, processed_field[1],
                                                processed_field[2])))

\* lines 70, 110 (model_description left to its default None): the entry of a
\* documented parameter called description, else the docstring
FunctionDescription(func, docstring) ==
    IF Has(docstring, "description") THEN Get(docstring, "description")
    ELSE func.__doc__

\* line 112
FunctionModel(self, func, fields, model_description) ==
    IF IsRaise(fields) THEN fields
    ELSE _create_pydantic_model(self, func.__name__, fields.fields,
                                model_description)

\* lines 50-112 (model_name left to its default None)
model_from_function(self, func, is_parse_docstrings) ==
    FunctionModel(self, func,
                  FunctionFields(self, func,
                                 DocstringOf(self, func, is_parse_docstrings),
                                 1, <<>>),
                  FunctionDescription(func,
                                      DocstringOf(self, func, is_parse_docstrings)))

---------------------------------------------------------------------------
(* What a model class does with input: pydantic's validation of the class     *)
(* made by create_model.  A field is required iff its default is the          *)
(* Ellipsis; a class whose configuration is extra="forbid" rejects unknown    *)
(* keys, any other class ignores them.                                        *)

FieldDefault(f) == IF f.default.t = "FieldInfo" THEN f.default.default ELSE f.default
IsRequired(f) == FieldDefault(f) = Ellipsis
FieldNames(cls) == {cls.fields[i].name : i \in 1..Len(cls.fields)}

\* a string annotation is evaluated to the type it names
ForwardRef(annotation) ==
    CASE annotation = Str("str") -> Type("str")
      [] annotation = Str("int") -> Type("int")
      [] annotation = Str("typing.Optional[str]") -> OptionalOf(Type("str"))
      [] annotation = Str("typing.Optional[int]") -> OptionalOf(Type("int"))
      [] OTHER -> Type("Any")

RECURSIVE Accepts(_, _)
\* value is valid for the type
Accepts(type, value) ==
    CASE type.t = "model" ->
           /\ IsDict(value)
           /\ \A i \in 1..Len(type.fields) :
                 IF Has(value, type.fields[i].name)
                 THEN Accepts(type.fields[i].type, Get(value, type.fields[i].name))
                 ELSE ~IsRequired(type.fields[i])
           /\ type.extra = "forbid" => KeySet(value) \subseteq FieldNames(type)
      [] type.t = "List" ->
           /\ IsList(value)
           /\ \A i \in 1..Len(value.it) : Accepts(type.item, value.it[i])
      [] type.t = "Literal" ->
           \E i \in 1..Len(type.values) : type.values[i] = value
      [] type.t = "Optional" -> value = Null \/ Accepts(type.item, value)
      [] type.t = "Annotated" -> Accepts(type.item, value)
      [] type.t = "str" -> Accepts(ForwardRef(type), value)
      [] type.t = "type" ->
           CASE type.name = "Any" -> TRUE
             [] type.name \in {"str", "date", "datetime", "EmailStr", "AnyUrl"} ->
                  IsStr(value)
             [] type.name = "int" -> value.t = "num"
             [] type.name = "float" -> value.t \in {"num", "float"}
             [] type.name = "bool" -> value.t = "bool"
             [] type.name = "NoneType" -> value = Null
             [] type.name = "dict" -> IsDict(value)
             [] type.name = "list" -> IsList(value)
             [] OTHER -> FALSE
      [] OTHER -> FALSE

RECURSIVE Instance(_, _)
\* the instance a valid value gives: the fields' values, defaults filled in
Instance(type, value) ==
    CASE type.t = "model" ->
           Dict([i \in 1..Len(type.fields) |->
                   KV(type.fields[i].name,
                      IF Has(value, type.fields[i].name)
                      THEN Instance(type.fields[i].type, Get(value, type.fields[i].name))
                      ELSE FieldDefault(type.fields[i]))])
      [] type.t = "List" ->
           List([i \in 1..Len(value.it) |-> Instance(type.item, value.it[i])])
      [] type.t \in {"Optional", "Annotated"} ->
           IF value = Null THEN value ELSE Instance(type.item, value)
      [] OTHER -> value

\* Model(**data)
Validate(cls, data) ==
    IF Accepts(cls, data) THEN [ok |-> TRUE, value |-> Instance(cls, data)]
    ELSE [ok |-> FALSE, value |-> Raise("ValidationError")]

---------------------------------------------------------------------------
(* The document pydantic's GenerateJsonSchema emits for a model class made   *)
(* by create_model: keywords sorted, properties in the order of the fields,  *)
(* every nested model class a definition under its name.                     *)

JsonTypeOf(type) ==
    CASE type.name = "str" -> "string"
      [] type.name = "int" -> "integer"
      [] type.name = "float" -> "number"
      [] type.name = "bool" -> "boolean"
      [] type.name = "NoneType" -> "null"

\* the nested model classes of a type, the outer ones first
RECURSIVE ClassesOf(_)
RECURSIVE ClassesOfFields(_, _)
ClassesOf(type) ==
    CASE type.t = "model" -> <<type>> \o ClassesOfFields(type.fields, 1)
      [] type.t = "List" -> ClassesOf(type.item)
      [] OTHER -> <<>>
ClassesOfFields(fields, i) ==
    IF i > Len(fields) THEN <<>>
    ELSE ClassesOf(fields[i].type) \o ClassesOfFields(fields, i + 1)

\* the schema of the items of a list
RECURSIVE ItemSchemaOf(_)
ItemSchemaOf(type) ==
    CASE type.t = "model" -> Ref(type.name)
      [] type.t = "List" ->
           Dict(<<KV("items", ItemSchemaOf(type.item)), KV("type", Str("array"))>>)
      [] type.t = "type" /\ type.name = "Any" -> Dict(<<>>)
      [] OTHER -> Dict(<<KV("type", Str(JsonTypeOf(type)))>>)

\* the schema of a field
FieldSchemaOf(f) ==
    IF IsModel(f.type) THEN Ref(f.type.name)
    ELSE Dict((IF IsRequired(f) THEN <<>> ELSE <<KV("default", FieldDefault(f))>>)
              \o (IF f.type.t = "List" THEN <<KV("items", ItemSchemaOf(f.type.item))>>
                  ELSE <<>>)
              \o <<KV("title", Str(TitleOf(f.name)))>>
              \o (IF f.type.t = "List" THEN <<KV("type", Str("array"))>>
                  ELSE IF f.type.name = "Any" THEN <<>>
                  ELSE <<KV("type", Str(JsonTypeOf(f.type)))>>))

\* the names of the required fields
RequiredFieldNames(cls) ==
    LET required == SelectSeq(cls.fields, IsRequired)
    IN StrList([i \in 1..Len(required) |-> required[i].name])

\* the schema of a class without its definitions; the docstring " " that
\* _create_pydantic_model sets comes out as the empty description
ClassSchemaOf(cls) ==
    (IF cls.doc = Null THEN <<>>
     ELSE <<KV("description", IF cls.doc = Str(" ") THEN Str("") ELSE cls.doc)>>)
    \o <<KV("properties", Dict([i \in 1..Len(cls.fields) |->
                                  KV(cls.fields[i].name, FieldSchemaOf(cls.fields[i]))]))>>
    \o (IF RequiredFieldNames(cls).it = <<>> THEN <<>>
        ELSE <<KV("required", RequiredFieldNames(cls))>>)
    \o <<KV("title", Str(cls.name)), KV("type", Str("object"))>>

\* the schema of a class
JsonSchemaOf(cls) ==
    LET nested == ClassesOfFields(cls.fields, 1)
    IN Dict((IF nested = <<>> THEN <<>>
             ELSE <<KV("$defs", Dict([i \in 1..Len(nested) |->
                                        KV(nested[i].name,
                                           Dict(ClassSchemaOf(nested[i])))]))>>)
            \o ClassSchemaOf(cls))

---------------------------------------------------------------------------
(* Operations *)

\* no generator class has rendered yet; a dispatcher without tools
NoRenders == [g \in Generators |-> Null]
NoTools == Dict(<<>>)

Init ==
    /\ schema \in BaseSchemas
    /\ op = "none"
    /\ arg = Null
    /\ out = Null
    /\ options = DefaultOptions
    /\ builder = DefaultBuilder
    /\ model = NoModel
    /\ rendered = NoRenders
    /\ func_dispatch = NoTools

\* Model.model_json_schema(schema_generator=g)
Render(g) ==
    /\ op' = g
    /\ out' = Generate(g, schema, options)
    /\ UNCHANGED <<schema, arg, options, builder, model, rendered, func_dispatch>>

\* the strict-mode pass alone, on the document as generated
EnsureStrict ==
    /\ op' = "_ensure_strict_json_schema"
    /\ out' = _ensure_strict_json_schema(schema)
    /\ UNCHANGED <<schema, arg, options, builder, model, rendered, func_dispatch>>

\* the inlining pass alone (lines 39-42), on the document as generated
Inline ==
    /\ Has(schema, "$defs")
    /\ op' = "_inline_references"
    /\ out' = InliningPass(schema)
    /\ UNCHANGED <<schema, arg, options, builder, model, rendered, func_dispatch>>

Next ==
    \/ \E g \in Generators : Render(g)
    \/ EnsureStrict
    \/ Inline

Spec == Init /\ [][Next]_vars

---------------------------------------------------------------------------
(* Operations of the builder: a caller builds a model class from example     *)
(* data or from a JSON-schema document and instantiates it with input.       *)

\* the properties of the JSON-schema documents
JsonProperty(kind) ==
    CASE kind = "string" -> Dict(<<KV("type", Str("string"))>>)
      [] kind = "integer" -> Dict(<<KV("type", Str("integer"))>>)
      [] kind = "boolean_default" ->
           Dict(<<KV("type", Str("boolean")), KV("default", Bool(FALSE))>>)

\* every list of names of a set, in the order of the properties
RequiredLists(names) ==
    {SelectSeq(names, LAMBDA n : n \in chosen) : chosen \in SUBSET Range(names)}

ObjectSchema(properties, required) ==
    Dict(<<KV("type", Str("object")), KV("properties", Dict(properties)),
           KV("required", StrList(required))>>)

ToolSchema(properties, required) ==
    Dict(<<KV("name", Str("M")), KV("description", Str("a tool")),
           KV("parameters", ObjectSchema(properties, required))>>)

\* name and age; name and a boolean with a default; name and a nested object;
\* name and a list of objects: each with every required list, at every level
JsonSchemas ==
    {ToolSchema(<<KV("name", JsonProperty("string")),
                  KV("age", JsonProperty("integer"))>>, r) :
        r \in RequiredLists(<<"name", "age">>)}
    \cup {ToolSchema(<<KV("name", JsonProperty("string")),
                       KV("is_student", JsonProperty("boolean_default"))>>, r) :
             r \in RequiredLists(<<"name", "is_student">>)}
    \cup {ToolSchema(<<KV("name", JsonProperty("string")),
                       KV("inner", ObjectSchema(
                                      <<KV("name", JsonProperty("string")),
                                        KV("age", JsonProperty("integer"))>>,
                                      p[2]))>>, p[1]) :
             p \in RequiredLists(<<"name", "inner">>)
                      \X RequiredLists(<<"name", "age">>)}
    \cup {ToolSchema(<<KV("name", JsonProperty("string")),
                       KV("tags", Dict(<<KV("type", Str("array")),
                                         KV("items", ObjectSchema(
                                              <<KV("name", JsonProperty("string"))>>,
                                              <<"name">>))>>))>>, r) :
             r \in RequiredLists(<<"name", "tags">>)}

\* documents without a parameters section: a name and a description; a bare
\* schema with a title; an envelope without its schema; and a document whose
\* parameters are null
BareDocuments ==
    {Dict(<<KV("name", Str("M")), KV("description", Str("a tool"))>>),
     Dict(<<KV("title", Str("M")), KV("type", Str("object")),
            KV("properties", Dict(<<KV("name", JsonProperty("string"))>>)),
            KV("required", StrList(<<"name">>))>>),
     Dict(<<KV("type", Str("json_schema")),
            KV("json_schema", Dict(<<KV("name", Str("M")),
                                     KV("description", Str("a tool"))>>))>>),
     Dict(<<KV("name", Str("M")), KV("parameters", Null)>>)}

MaxDepth == 3

\* example data of scalars (str, int, float, bool) and of nested dicts of
\* scalars, d levels deep
RECURSIVE NestedData(_)
NestedData(d) ==
    IF d = 0
    THEN Dict(<<KV("age", Num(30)), KV("score", Float), KV("is_student", Bool(FALSE))>>)
    ELSE Dict(<<KV("name", Str("Jane")), KV("inner", NestedData(d - 1))>>)

\* example data and schema dicts: scalars, None, types, nested dicts, lists
ExampleData == Dict(<<KV("name", Str("John")), KV("age", Num(30)),
                      KV("is_student", Bool(FALSE))>>)
SchemaDicts ==
    {ExampleData,
     Dict(<<KV("name", Str("John")), KV("age", Num(30)), KV("is_student", Null)>>),
     Dict(<<KV("name", Type("str")), KV("age", Type("int"))>>),
     Dict(<<KV("inner", Dict(<<KV("name", Type("str"))>>))>>),
     Dict(<<KV("name", Str("John")),
            KV("inner", Dict(<<KV("name", Str("Jane")), KV("age", Num(30))>>))>>),
     Dict(<<KV("name", Type("str")),
            KV("tags", List(<<Dict(<<KV("name", Str("Jane"))>>)>>))>>),
     Dict(<<KV("tags", List(<<Str("John")>>)), KV("age", Num(30))>>),
     Dict(<<KV("tags", List(<<>>)), KV("age", Num(30))>>)}
    \cup {NestedData(d) : d \in 0..MaxDepth}

\* input to instantiate a class with: a value of every field, then the same
\* with keys left out or an unknown key added, at the top and one level down
RECURSIVE Sample(_)
Sample(type) ==
    CASE type.t = "model" ->
           Dict([i \in 1..Len(type.fields) |->
                   KV(type.fields[i].name, Sample(type.fields[i].type))])
      [] type.t = "List" -> List(<<Sample(type.item)>>)
      [] type.t = "Literal" -> type.values[1]
      [] type.t \in {"Optional", "Annotated"} -> Sample(type.item)
      [] type.t = "str" -> Sample(ForwardRef(type))
      [] type.t = "type" ->
           CASE type.name = "int" -> Num(30)
             [] type.name = "float" -> Float
             [] type.name = "bool" -> Bool(TRUE)
             [] type.name = "NoneType" -> Null
             [] type.name = "dict" -> Dict(<<KV("name", Str("John"))>>)
             [] type.name = "list" -> List(<<Str("John")>>)
             [] OTHER -> Str("John")
Omit(data, names) ==
    Dict(SelectSeq(data.kv, LAMBDA e : e.k \notin names))
WithExtra(data) == Set(data, "extra", Str("not allowed"))
\* the variants of one dict
Variants(data) ==
    {Omit(data, names) : names \in SUBSET KeySet(data)} \cup {WithExtra(data)}
\* the variants of the dicts one level down: in a field, in the item of a list
InnerVariants(data) ==
    UNION {IF IsDict(data.kv[i].v)
           THEN {Set(data, data.kv[i].k, v) : v \in Variants(data.kv[i].v)}
           ELSE IF IsList(data.kv[i].v) /\ data.kv[i].v.it # <<>>
                   /\ IsDict(data.kv[i].v.it[1])
           THEN {Set(data, data.kv[i].k, List(<<v>>)) :
                    v \in Variants(data.kv[i].v.it[1])}
           ELSE {} : i \in 1..Len(data.kv)}
Inputs(cls) == Variants(Sample(cls)) \cup InnerVariants(Sample(cls))
\* nothing to instantiate before a class is built; a class built from example
\* data is also given that data
InputsOf(m) ==
    IF m = NoModel THEN {}
    ELSE Inputs(m.cls) \cup (IF m.by = "model_from_dict" THEN {schema} ELSE {})

InitBuilder ==
    /\ schema \in JsonSchemas \cup BareDocuments \cup SchemaDicts
    /\ op = "none"
    /\ arg = Null
    /\ out = Null
    /\ options = DefaultOptions
    /\ builder \in Builders
    /\ model = NoModel
    /\ rendered = NoRenders
    /\ func_dispatch = NoTools

\* ModelBuilder(...).model_from_dict(schema, "M", is_set_defaults_from_values=...,
\*                                   is_set_descriptions_from_str_values=...)
ModelFromDict(is_set_defaults_from_values, is_set_descriptions_from_str_values) ==
    /\ schema \in SchemaDicts
    /\ op' = "model_from_dict"
    /\ arg' = [is_set_defaults_from_values |-> is_set_defaults_from_values,
               is_set_descriptions_from_str_values |->
                   is_set_descriptions_from_str_values]
    /\ out' = model_from_dict(builder, schema, "M", is_set_defaults_from_values,
                              is_set_descriptions_from_str_values)
    /\ model' = [by |-> "model_from_dict", args |-> arg', cls |-> out']
    /\ UNCHANGED <<schema, options, builder, rendered, func_dispatch>>

\* ModelBuilder(...).model_from_json_schema(schema)
ModelFromJsonSchema ==
    /\ schema \in JsonSchemas \cup BareDocuments
    /\ op' = "model_from_json_schema"
    /\ arg' = Null
    /\ out' = model_from_json_schema(builder, schema, Null)
    /\ model' = IF IsRaise(out') THEN model
                ELSE [by |-> "model_from_json_schema", args |-> Null, cls |-> out']
    /\ UNCHANGED <<schema, options, builder, rendered, func_dispatch>>

\* Model(**data)
Instantiate(data) ==
    /\ op' = "Model"
    /\ arg' = data
    /\ out' = Validate(model.cls, data).value
    /\ UNCHANGED <<schema, options, builder, model, rendered, func_dispatch>>

NextBuilder ==
    \/ \E d, s \in BOOLEAN : ModelFromDict(d, s)
    \/ ModelFromJsonSchema
    \/ \E data \in InputsOf(model) : Instantiate(data)

SpecBuilder == InitBuilder /\ [][NextBuilder]_vars

---------------------------------------------------------------------------
(* Operations of the builder on a callable: a caller builds a model class    *)
(* from the signature of a function and instantiates it with input.          *)

MaxParams == 2

\* inspect.Parameter
Parameter(name, kind, annotation, default) ==
    [name |-> name, kind |-> kind, annotation |-> annotation, default |-> default]

\* parameters with and without annotation, with no default and with a scalar,
\* None, list and dict default, *args, **kwargs and self
Parameters ==
    {Parameter("name", "POSITIONAL_OR_KEYWORD", Type("str"), Empty),
     Parameter("name", "POSITIONAL_OR_KEYWORD", Empty, Empty),
     Parameter("age", "POSITIONAL_OR_KEYWORD", Type("int"), Num(30)),
     Parameter("age", "POSITIONAL_OR_KEYWORD", OptionalOf(Type("int")), Null),
     Parameter("age", "POSITIONAL_OR_KEYWORD", Empty, Num(30)),
     Parameter("tags", "POSITIONAL_OR_KEYWORD", ListOf(Type("str")),
               List(<<Str("John")>>)),
     Parameter("inner", "POSITIONAL_OR_KEYWORD", Type("dict"),
               Dict(<<KV("name", Str("Jane"))>>)),
     Parameter("score", "POSITIONAL_OR_KEYWORD",
               AnnotatedOf(Type("float"), <<Str("The score")>>), Float),
     Parameter("args", "VAR_POSITIONAL", Empty, Empty),
     Parameter("kwargs", "VAR_KEYWORD", Empty, Empty),
     Parameter("self", "POSITIONAL_OR_KEYWORD", Empty, Empty)}

IsVariadic(param) == param.kind \in {"VAR_POSITIONAL", "VAR_KEYWORD"}

\* what Python accepts as a signature: distinct names, self first, **kwargs
\* last, no positional parameter without default after one with a default
IsSignature(s) ==
    /\ \A i, j \in 1..Len(s) : s[i].name = s[j].name => i = j
    /\ \A i \in 1..Len(s) :
          /\ s[i].name = "self" => i = 1
          /\ s[i].kind = "VAR_KEYWORD" => i = Len(s)
          /\ \A j \in 1..(i - 1) :
                (s[j].default # Empty /\ s[i].default = Empty /\ ~IsVariadic(s[i]))
                   => \E k \in 1..(i - 1) : s[k].kind = "VAR_POSITIONAL"

\* a parameter after *args is keyword-only
WithKinds(s) ==
    [i \in 1..Len(s) |->
       IF ~IsVariadic(s[i]) /\ \E k \in 1..(i - 1) : s[k].kind = "VAR_POSITIONAL"
       THEN [s[i] EXCEPT !.kind = "KEYWORD_ONLY"]
       ELSE s[i]]

Signatures ==
    {WithKinds(s) : s \in {s \in UNION {[1..n -> Parameters] : n \in 1..MaxParams} :
                             IsSignature(s)}}

\* docstring_parser's DocstringParam
DocstringParam(arg_name, type_name, is_optional) ==
    [arg_name |-> arg_name, description |-> Str("The " \o arg_name),
     type_name |-> type_name, is_optional |-> is_optional]

\* no docstring; a docstring that documents name with a type, name without a
\* type, age with an optional type
Docstrings ==
    {[__doc__ |-> Null, params |-> <<>>],
     [__doc__ |-> Str("Sample function. name (str)"),
      params |-> <<DocstringParam("name", Str("str"), FALSE)>>],
     [__doc__ |-> Str("Sample function. name"),
      params |-> <<DocstringParam("name", Null, FALSE)>>],
     [__doc__ |-> Str("Sample function. age (int, optional)"),
      params |-> <<DocstringParam("age", Str("int"), TRUE)>>]}

Functions ==
    {[__name__ |-> "sample_function", __doc__ |-> d.__doc__,
      docstring_params |-> d.params, parameters |-> s] :
        s \in Signatures, d \in Docstrings}

InitFunction ==
    /\ schema \in Functions
    /\ op = "none"
    /\ arg = Null
    /\ out = Null
    /\ options = DefaultOptions
    /\ builder \in {[DefaultBuilder EXCEPT !.is_parse_docstrings = p] : p \in BOOLEAN}
    /\ model = NoModel
    /\ rendered = NoRenders
    /\ func_dispatch = NoTools

\* ModelBuilder(...).model_from_function(schema, is_parse_docstrings=...)
ModelFromFunction(is_parse_docstrings) ==
    /\ schema \in Functions
    /\ op' = "model_from_function"
    /\ arg' = [is_parse_docstrings |-> is_parse_docstrings]
    /\ out' = model_from_function(builder, schema, is_parse_docstrings)
    /\ model' = IF IsRaise(out') THEN model
                ELSE [by |-> "model_from_function", args |-> arg', cls |-> out']
    /\ UNCHANGED <<schema, options, builder, rendered, func_dispatch>>

NextFunction ==
    \/ \E p \in BOOLEAN : ModelFromFunction(p)
    \/ \E data \in InputsOf(model) : Instantiate(data)

SpecFunction == InitFunction /\ [][NextFunction]_vars

---------------------------------------------------------------------------
(* The mapping of one JSON-schema property: a caller maps a property         *)
(* description to a field type and a field info.                             *)

MaxKeywords == 2

\* the keywords of the keyword map, each with a value
ConstraintKeywords ==
    <<KV("minLength", Num(2)), KV("maxLength", Num(10)), KV("minItems", Num(1)),
      KV("maxItems", Num(5)), KV("minimum", Num(1)), KV("maximum", Num(100)),
      KV("multipleOf", Num(2)), KV("pattern", Str("^[a-z]+$"))>>

\* the part of a description that decides the type: no type, every type of the
\* table with and without enum, format and items, and a type not in the table
TypeKeywords ==
    {<<>>,
     <<KV("type", Str("string"))>>,
     <<KV("type", Str("string")), KV("enum", StrList(<<"a", "b">>))>>,
     <<KV("type", Str("string")), KV("enum", StrList(<<"a", "b">>)),
       KV("format", Str("date"))>>,
     <<KV("type", Str("integer"))>>,
     <<KV("type", Str("integer")), KV("enum", List(<<Num(1), Num(2)>>))>>,
     <<KV("type", Str("number"))>>,
     <<KV("type", Str("boolean"))>>,
     <<KV("type", Str("array"))>>,
     <<KV("type", Str("array")), KV("items", Dict(<<KV("type", Str("string"))>>))>>,
     <<KV("type", Str("array")),
       KV("items", Dict(<<KV("type", Str("integer")), KV("minimum", Num(1))>>))>>,
     <<KV("type", Str("array")),
       KV("items", ObjectSchema(<<KV("name", JsonProperty("string"))>>, <<"name">>))>>,
     <<KV("type", Str("object"))>>,
     <<KV("type", Str("object")),
       KV("properties", Dict(<<KV("name", JsonProperty("string")),
                               KV("age", JsonProperty("integer"))>>)),
       KV("required", StrList(<<"name">>))>>,
     <<KV("type", Str("null"))>>,
     <<KV("type", StrList(<<"string", "null">>))>>}
    \cup {<<KV("type", Str("string")), KV("format", Str(f))>> :
             f \in {"date", "date-time", "email", "uri", "time"}}

\* the descriptions: a type part, then at most MaxKeywords constraint keywords
PropertyDescriptions ==
    {Dict(t \o SelectSeq(ConstraintKeywords, LAMBDA e : e.k \in chosen)) :
        t \in TypeKeywords,
        chosen \in {c \in SUBSET KeySet(Dict(ConstraintKeywords)) :
                      Cardinality(c) <= MaxKeywords}}

InitMapping ==
    /\ schema \in PropertyDescriptions
    /\ op = "none"
    /\ arg = Null
    /\ out = Null
    /\ options = DefaultOptions
    /\ builder = DefaultBuilder
    /\ model = NoModel
    /\ rendered = NoRenders
    /\ func_dispatch = NoTools

\* ModelBuilder()._map_json_type_to_python(schema, "tags", "M", is_required)
MapJsonType(is_required) ==
    /\ op' = "_map_json_type_to_python"
    /\ arg' = [field_name |-> "tags", parent_model_name |-> "M",
               is_required |-> is_required]
    /\ out' = _map_json_type_to_python(builder, schema, "tags", "M", is_required)
    /\ UNCHANGED <<schema, options, builder, model, rendered, func_dispatch>>

NextMapping == \E is_required \in BOOLEAN : MapJsonType(is_required)

SpecMapping == InitMapping /\ [][NextMapping]_vars

---------------------------------------------------------------------------
(* Operations on a model class: a caller builds a class from example data on *)
(* a builder with a base model, binds a schema generator to it, renders it,  *)
(* builds a second class from the rendered document and validates the data.  *)

\* example data: flat, with a nested dict, with a list of scalars, with a
\* list of dicts
RoundTripData ==
    {ExampleData,
     Dict(<<KV("name", Str("John")),
            KV("inner", Dict(<<KV("name", Str("Jane")), KV("age", Num(30))>>))>>),
     Dict(<<KV("tags", List(<<Str("John")>>)), KV("age", Num(30))>>),
     Dict(<<KV("tags", List(<<Dict(<<KV("name", Str("Alice")), KV("age", Num(30))>>),
                              Dict(<<KV("name", Str("Bob")), KV("age", Num(25))>>)>>))>>),
     Dict(<<KV("name", Str("John")),
            KV("tags", List(<<Dict(<<KV("name", Str("Alice"))>>)>>))>>)}

InitModels ==
    /\ schema \in RoundTripData
    /\ op = "none"
    /\ arg = Null
    /\ out = Null
    /\ options = DefaultOptions
    /\ builder \in {[DefaultBuilder EXCEPT !.base_model = b] :
                      b \in DialectBaseModels \cup {ToolBaseModel}}
    /\ model = NoModel
    /\ rendered = NoRenders
    /\ func_dispatch = NoTools

\* CompatibilitySchemaGenerator.is_inlined_refs = value
SetInlinedRefs(value) ==
    /\ op = "none"
    /\ options' = [options EXCEPT !["is_inlined_refs"] = value]
    /\ UNCHANGED <<schema, op, arg, out, builder, model, rendered, func_dispatch>>

\* ModelBuilder(base_model=...).model_from_dict(schema, "NestedModel")
BuildModel ==
    /\ op = "none"
    /\ op' = "model_from_dict"
    /\ arg' = [is_set_defaults_from_values |-> FALSE,
               is_set_descriptions_from_str_values |-> FALSE]
    /\ out' = model_from_dict(builder, schema, "NestedModel", FALSE, FALSE)
    /\ model' = [by |-> "model_from_dict", args |-> arg', cls |-> out']
    /\ UNCHANGED <<schema, options, builder, rendered, func_dispatch>>

\* Model.model_bind_schema_generator(g)
BindSchemaGenerator(g) ==
    /\ op = "model_from_dict"
    /\ op' = "model_bind_schema_generator"
    /\ arg' = g
    /\ out' = Null
    /\ model' = [model EXCEPT !.cls = model_bind_schema_generator(model.cls, g)]
    /\ UNCHANGED <<schema, options, builder, rendered, func_dispatch>>

\* Model.model_json_schema(schema_generator=g), or Model.model_json_schema()
ModelJsonSchema(g) ==
    /\ op \in {"model_from_dict", "model_bind_schema_generator"}
    /\ op' = "model_json_schema"
    /\ arg' = [cls |-> model.cls, schema_generator |-> g]
    /\ out' = model_json_schema(model.cls, g, JsonSchemaOf(model.cls), options)
    /\ UNCHANGED <<schema, options, builder, model, rendered, func_dispatch>>

\* ModelBuilder(base_model=...).model_from_json_schema(out, "NestedModel")
ModelFromRenderedSchema ==
    /\ op = "model_json_schema" /\ ~IsRaise(out)
    /\ op' = "model_from_json_schema"
    /\ out' = model_from_json_schema(builder, out, Str("NestedModel"))
    /\ model' = IF IsRaise(out') THEN model
                ELSE [by |-> "model_from_json_schema", args |-> Null, cls |-> out']
    /\ UNCHANGED <<schema, arg, options, builder, rendered, func_dispatch>>

\* ModelFromSchema(**schema)
ValidateOriginal ==
    /\ op = "model_from_json_schema" /\ ~IsRaise(out)
    /\ op' = "Model"
    /\ out' = Validate(model.cls, schema).value
    /\ UNCHANGED <<schema, arg, options, builder, model, rendered, func_dispatch>>

NextModels ==
    \/ \E value \in BOOLEAN : SetInlinedRefs(value)
    \/ BuildModel
    \/ \E g \in {"Generic", "StrictBase"} : BindSchemaGenerator(g)
    \/ \E g \in Generators \cup {"None"} : ModelJsonSchema(g)
    \/ ModelFromRenderedSchema
    \/ ValidateOriginal

SpecModels == InitModels /\ [][NextModels]_vars

---------------------------------------------------------------------------
(* Operations on the options: a caller sets the class attributes of          *)
(* CompatibilitySchemaGenerator (lines 29-31), as test_schema_generators.py  *)
(* line 45 does, and renders a model with nested sub-models.                 *)

ToggledOptions == {"is_inlined_refs", "is_reordered_keys", "is_removed_titles"}

\* the documents of the model classes with sub-models: the sub-model as a
\* field, as the items of a list, described; with and without a sub-model
\* of its own
NestedSchemas ==
    {s \in {ModelSchema(fields, <<"name", "age", "inner">>, link, "ignore") :
               fields \in FieldLists(RefKinds),
               link \in {NoLinks, [NoLinks EXCEPT !["InnerModel"] = "Node"]}} :
       Has(s, "$defs")}

InitOptions ==
    /\ schema \in NestedSchemas
    /\ op = "none"
    /\ arg = Null
    /\ out = Null
    /\ options = DefaultOptions
    /\ builder = DefaultBuilder
    /\ model = NoModel
    /\ rendered = NoRenders
    /\ func_dispatch = NoTools

\* CompatibilitySchemaGenerator.<name> = value
SetOption(name, value) ==
    /\ options[name] # value
    /\ op' = "setattr"
    /\ out' = Null
    /\ options' = [options EXCEPT ![name] = value]
    /\ UNCHANGED <<schema, arg, builder, model, rendered, func_dispatch>>

NextOptions ==
    \/ \E name \in ToggledOptions, value \in BOOLEAN : SetOption(name, value)
    \/ \E g \in Generators : Render(g)

SpecOptions == InitOptions /\ [][NextOptions]_vars

---------------------------------------------------------------------------
(* Vocabulary of the properties *)

Marker == Dict(<<KV("$ref", Str("#"))>>)
IsRefNode(json) == IsDict(json) /\ Has(json, "$ref")

\* every dict at any depth of a document
RECURSIVE AllNodes(_)
AllNodes(json) ==
    IF IsDict(json)
    THEN {json} \cup UNION {AllNodes(json.kv[i].v) : i \in 1..Len(json.kv)}
    ELSE IF IsList(json) THEN UNION {AllNodes(json.it[i]) : i \in 1..Len(json.it)}
    ELSE {}

\* the values of every $ref keyword of a document
RefValues(json) == {Get(n, "$ref") : n \in {m \in AllNodes(json) : Has(m, "$ref")}}
\* the definitions a document refers to by name
RefNames(json) == {d \in DefSet : Str(RefTo(d)) \in RefValues(json)}

\* the nodes the strict-mode pass is called on: the root, property values,
\* anyOf and allOf members, $defs and definitions entries
RECURSIVE StrictNodes(_)
StrictNodes(json) ==
    IF ~IsDict(json) THEN {}
    ELSE {json}
         \cup UNION {StrictNodes(c) :
                c \in UNION {{Get(json, k).kv[i].v : i \in 1..Len(Get(json, k).kv)} :
                        k \in {q \in {"properties", "$defs", "definitions"} :
                                 Has(json, q) /\ IsDict(Get(json, q))}}}
         \cup UNION {StrictNodes(c) :
                c \in UNION {{Get(json, k).it[i] : i \in 1..Len(Get(json, k).it)} :
                        k \in {q \in {"anyOf", "allOf"} :
                                 Has(json, q) /\ IsList(Get(json, q))}}}

\* the definitions of a document that lie on a reference cycle
Definitions(json) == GetOr(json, "$defs", Dict(<<>>))
RECURSIVE ReachFrom(_, _)
ReachFrom(names, json) ==
    LET more == names \cup UNION {RefNames(Get(Definitions(json), d)) :
                                    d \in names \cap KeySet(Definitions(json))}
    IN IF more = names THEN names ELSE ReachFrom(more, json)
OnCycle(d, json) ==
    /\ Has(Definitions(json), d)
    /\ d \in ReachFrom(RefNames(Get(Definitions(json), d)), json)
\* the schema's definitions are directly or mutually self-referential
SelfReferential(json) == \E d \in DefSet : OnCycle(d, json)

\* the inlined document an operation produced, if it runs the inlining pass
Inlined ==
    CASE op = "_inline_references" -> out
      [] op = "StrictBase" -> Get(out, "parameters")
      [] op = "OpenAiResponseFormat" -> Get(Get(out, "json_schema"), "schema")
      [] OTHER -> Null
RanInlining == op \in {"_inline_references", "StrictBase", "OpenAiResponseFormat"}

---------------------------------------------------------------------------
(* Properties of the inlining pass *)

\* the places of the generated document that lie in no definition: a field's
\* own schema and the items of an array field
RootProperties(json) == GetOr(json, "properties", Dict(<<>>))
ReferringFields(json) ==
    {k \in KeySet(RootProperties(json)) :
       LET f == Get(RootProperties(json), k)
       IN IsRefNode(f) \/ (Has(f, "items") /\ IsRefNode(Get(f, "items")))}
ExpandedAt(json, k) ==
    LET f == Get(RootProperties(json), k)
    IN /\ ~IsRefNode(f)
       /\ Has(f, "items") => ~IsRefNode(Get(f, "items"))

\* C1: a definition referenced from two different, non-overlapping places
\* (sibling fields of the model) is replaced by its full body at both places;
\* the "#" marker appears only inside a definition's own expansion, so no
\* field's own reference is turned into the marker.
C1_ReuseIsInlinedAtEveryPlace ==
    (op = "_inline_references" /\ ~IsRaise(out)) =>
        \A k \in ReferringFields(schema) : ExpandedAt(out, k)

\* C2: for a schema whose definitions are directly or mutually
\* self-referential the inlining pass returns (it does not loop or raise), the
\* result has no $defs section, every $ref left in it is the marker "#", and the
\* marker stands at the recursion point.
C2_RecursionEndsInMarker ==
    (RanInlining /\ SelfReferential(schema)) =>
        /\ ~IsRaise(out)
        /\ ~Has(Inlined, "$defs")
        /\ RefValues(Inlined) = {Str("#")}

C2_Witness ==
    /\ op = "_inline_references"
    /\ OnCycle("InnerModel", schema) /\ OnCycle("Node", schema)
    /\ Marker \in AllNodes(out)
    /\ ~Has(out, "$defs")

---------------------------------------------------------------------------
(* Properties of the strict-mode pass *)

IsObjectNode(json) == GetOr(json, "type", Null) = Str("object")

\* C3: after the strict-mode pass every visited node of type "object" has
\* additionalProperties false, whatever it carried before.
C3_ObjectsForbidAdditionalProperties ==
    (op = "_ensure_strict_json_schema" /\ ~IsRaise(out)) =>
        \A n \in StrictNodes(out) :
            IsObjectNode(n) => GetOr(n, "additionalProperties", Null) = Bool(FALSE)

AllPropertiesRequired(n) ==
    (Has(n, "properties") /\ IsDict(Get(n, "properties"))) =>
        /\ Has(n, "required")
        /\ Get(n, "required") = StrList(Keys(Get(n, "properties")))

\* the parameters of a document rendered by a dialect that applies the strict rules
StrictDialects == {"StrictBase", "OpenAiStrict", "OpenAiResponseFormat"}
StrictParameters ==
    CASE op = "StrictBase" -> Get(out, "parameters")
      [] op = "OpenAiStrict" -> Get(Get(out, "function"), "parameters")
      [] op = "OpenAiResponseFormat" -> Get(Get(out, "json_schema"), "schema")
      [] OTHER -> Null

\* C4: after the strict-mode pass every visited node with a properties mapping
\* has a required list equal to all its property names in declaration order,
\* and in every strict dialect each property of such a node is required.
C4_RequiredListsEveryProperty ==
    /\ (op = "_ensure_strict_json_schema" /\ ~IsRaise(out)) =>
          \A n \in StrictNodes(out) : AllPropertiesRequired(n)
    /\ (op \in StrictDialects /\ ~IsRaise(out)) =>
          \A n \in StrictNodes(StrictParameters) :
              (Has(n, "properties") /\ IsDict(Get(n, "properties"))) =>
                  /\ Has(n, "required")
                  /\ \A k \in KeySet(Get(n, "properties")) :
                         \E i \in 1..Len(Get(n, "required").it) :
                             Get(n, "required").it[i] = Str(k)

\* a field with a default, so left out of required by pydantic, is required
\* after the pass
C4_Witness ==
    /\ op = "_ensure_strict_json_schema"
    /\ Has(schema, "properties") /\ Has(schema, "required")
    /\ Has(Get(Get(schema, "properties"), Keys(Get(schema, "properties"))[1]), "default")
    /\ Len(Get(schema, "required").it) < Len(Get(out, "required").it)
    /\ AllPropertiesRequired(out)

---------------------------------------------------------------------------
(* Properties of the dialects *)

IsEnvelope(json, keys) == IsDict(json) /\ Keys(json) = keys

\* C6, as the specification words it: the OpenAI strict dialect wraps a fully inlined strict
\* schema: no $defs section and no $ref to a named definition.
C6_OpenAiStrictIsInlined ==
    op = "OpenAiStrict" =>
        /\ IsEnvelope(out, <<"type", "function">>)
        /\ Get(out, "type") = Str("function")
        /\ IsEnvelope(Get(out, "function"),
                      <<"name", "description", "strict", "parameters">>)
        /\ Get(Get(out, "function"), "strict") = Bool(TRUE)
        /\ ~Has(StrictParameters, "$defs")
        /\ RefNames(StrictParameters) = {}

\* C6, as the code has it: the OpenAI strict dialect wraps a strict-annotated schema whose
\* references are retained: parameters keeps the $defs section with the model's
\* definitions, and every $ref in it names one of them.
C6_OpenAiStrictKeepsReferences ==
    op = "OpenAiStrict" =>
        /\ IsEnvelope(out, <<"type", "function">>)
        /\ Get(out, "type") = Str("function")
        /\ IsEnvelope(Get(out, "function"),
                      <<"name", "description", "strict", "parameters">>)
        /\ Get(Get(out, "function"), "strict") = Bool(TRUE)
        /\ Has(StrictParameters, "$defs") = Has(schema, "$defs")
        /\ KeySet(Definitions(StrictParameters)) = KeySet(Definitions(schema))
        /\ RefValues(StrictParameters) = RefValues(schema)
        /\ RefNames(StrictParameters) \subseteq KeySet(Definitions(StrictParameters))

\* a model with a nested and a reused sub-model
C6_Witness ==
    /\ op = "OpenAiStrict"
    /\ KeySet(Definitions(schema)) = {"InnerModel", "Node"}
    /\ KeySet(Definitions(StrictParameters)) = {"InnerModel", "Node"}
    /\ Cardinality(ReferringFields(schema)) = 2
    /\ RefNames(RootProperties(StrictParameters)) = {"InnerModel"}

\* C7: the lenient OpenAI dialect yields {type: "function", function: F} where
\* F has exactly the keys name, description and parameters, and parameters
\* keeps its $defs and $ref nodes and carries no strict-mode annotation.
C7_OpenAiLenientEnvelope ==
    op = "OpenAi" =>
        /\ IsEnvelope(out, <<"type", "function">>)
        /\ Get(out, "type") = Str("function")
        /\ IsEnvelope(Get(out, "function"), <<"name", "description", "parameters">>)
        /\ LET parameters == Get(Get(out, "function"), "parameters")
           IN /\ Has(parameters, "$defs") = Has(schema, "$defs")
              /\ RefValues(parameters) = RefValues(schema)
              /\ Has(parameters, "additionalProperties")
                   = Has(schema, "additionalProperties")
              /\ GetOr(parameters, "required", Null) = GetOr(schema, "required", Null)

\* C8: the document rendered for Google has no keyword default at any depth.
C8_GoogleHasNoDefault ==
    op = "Google" => \A n \in AllNodes(out) : ~Has(n, "default")

---------------------------------------------------------------------------
(* Properties of the builder *)

\* the names an object schema lists as required
RequiredNames(object) == Range(Get(object, "required").it)

\* a property of the object schema may be left out of the input of the class
\* exactly when the schema's required list does not name it, and the same
\* holds in every nested object
RECURSIVE RequiredAsListed(_, _)
RequiredAsListed(cls, object) ==
    \A i \in 1..Len(cls.fields) :
        LET field == cls.fields[i]
        IN /\ Accepts(cls, Omit(Sample(cls), {field.name}))
                <=> Str(field.name) \notin RequiredNames(object)
           /\ IsModel(field.type)
                => RequiredAsListed(field.type,
                                    Get(Get(object, "properties"), field.name))

\* C5: in model_from_json_schema a property is a required field of the built
\* model if and only if the required list of its enclosing object names it,
\* at the top level and in every nested object: a property that is not listed
\* may be omitted from input, a listed one may not.
C5_RequiredIffListed ==
    op = "model_from_json_schema" /\ ~IsRaise(out)
        => RequiredAsListed(out, Get(schema, "parameters"))

\* the input has a key its class does not declare, at some nesting level
RECURSIVE HasUnknownKey(_, _)
HasUnknownKey(type, value) ==
    CASE type.t = "model" /\ IsDict(value) ->
           \/ KeySet(value) \ FieldNames(type) # {}
           \/ \E i \in 1..Len(type.fields) :
                 /\ Has(value, type.fields[i].name)
                 /\ HasUnknownKey(type.fields[i].type,
                                  Get(value, type.fields[i].name))
      [] type.t = "List" /\ IsList(value) ->
           \E i \in 1..Len(value.it) : HasUnknownKey(type.item, value.it[i])
      [] OTHER -> FALSE

\* C9: a model built on a base model configured with extra="forbid", by
\* model_from_dict or by model_from_json_schema, rejects every input that has
\* an unknown key, whether the key is at the top level or inside a nested object.
C9_UnknownKeysRejectedAtEveryLevel ==
    op = "Model" /\ builder.base_model.extra = "forbid"
    /\ HasUnknownKey(model.cls, arg)
        => IsRaise(out)

\* M(name="John", age=30), M(age=30), and the instance the scenario expects
JohnAge30 == Dict(<<KV("name", Str("John")), KV("age", Num(30))>>)
Age30 == Dict(<<KV("age", Num(30))>>)
JohnNotStudent == Dict(<<KV("name", Str("John")), KV("age", Num(30)),
                         KV("is_student", Bool(FALSE))>>)
\* M was built by model_from_dict from the example data and is instantiated
OnExampleModel ==
    op = "Model" /\ model.by = "model_from_dict" /\ schema = ExampleData

\* C10, as the specification words it: the model built by model_from_dict from {"name": "John",
\* "age": 30, "is_student": False} accepts M(name="John", age=30) with
\* is_student False and rejects M(age=30).
C10_ExampleDataScenario ==
    OnExampleModel
        => /\ arg = JohnAge30 => out = JohnNotStudent
           /\ arg = Age30 => IsRaise(out)

\* C10, as the code has it: what M does depends on the arguments of model_from_dict.  With
\* is_set_defaults_from_values on, M(name="John", age=30) is accepted and
\* is_student is False, and M(age=30) is accepted too (name is "John") unless
\* is_set_descriptions_from_str_values is on as well, which makes name required.
\* With is_set_defaults_from_values off (the default) every field is required:
\* both M(name="John", age=30) and M(age=30) are rejected.
C10_DefaultsFollowTheFlag ==
    OnExampleModel
        => /\ arg = JohnAge30
                => IF model.args.is_set_defaults_from_values
                   THEN out = JohnNotStudent ELSE IsRaise(out)
           /\ arg = Age30
                => IF model.args.is_set_defaults_from_values
                      /\ ~model.args.is_set_descriptions_from_str_values
                   THEN out = JohnNotStudent ELSE IsRaise(out)
C10_Witness ==
    /\ OnExampleModel
    /\ arg = JohnAge30
    /\ model.args.is_set_defaults_from_values
    /\ out = JohnNotStudent

\* an example value that is a scalar: str, int or float, bool
IsScalar(value) == value.t \in {"str", "num", "float", "bool"}
\* the defaults flag, set on the builder or passed to model_from_dict
DefaultsFlag == builder.is_set_defaults_from_values
                    \/ model.args.is_set_defaults_from_values

\* C11: the defaults flag decides optionality whether it is the builder's
\* field is_set_defaults_from_values or the argument of model_from_dict: with
\* the flag on, leaving out a field whose example value is a scalar validates
\* and yields the example value; with the flag off, leaving it out is rejected.
C11_FlagDecidesOptionality ==
    (op = "Model" /\ model.by = "model_from_dict"
     /\ ~model.args.is_set_descriptions_from_str_values)
        => \A i \in 1..Len(schema.kv) :
              (IsScalar(schema.kv[i].v)
               /\ arg = Omit(Sample(model.cls), {schema.kv[i].k}))
                  => IF DefaultsFlag
                     THEN ~IsRaise(out) /\ Get(out, schema.kv[i].k) = schema.kv[i].v
                     ELSE IsRaise(out)

\* example data of scalars and of nested dicts of scalars: no None, no list
RECURSIVE IsPlainData(_)
IsPlainData(data) ==
    /\ IsDict(data)
    /\ \A i \in 1..Len(data.kv) :
          IsScalar(data.kv[i].v) \/ IsPlainData(data.kv[i].v)
\* the instance has, at every attribute path of the data, the data's leaf value
RECURSIVE SameLeaves(_, _)
SameLeaves(instance, data) ==
    /\ IsDict(instance)
    /\ \A i \in 1..Len(data.kv) :
          /\ Has(instance, data.kv[i].k)
          /\ IF IsDict(data.kv[i].v)
             THEN SameLeaves(Get(instance, data.kv[i].k), data.kv[i].v)
             ELSE Get(instance, data.kv[i].k) = data.kv[i].v

\* C12: for example data made of scalars and of nested dicts of scalars, to
\* any depth, validating the data against the model that model_from_dict built
\* from it succeeds, and the instance has the original leaf value at every
\* attribute path.
C12_ExampleDataRoundTrips ==
    (op = "Model" /\ model.by = "model_from_dict" /\ IsPlainData(schema)
     /\ arg = schema)
        => ~IsRaise(out) /\ SameLeaves(out, schema)
\* data two levels deep, with a float leaf
C12_Witness ==
    /\ op = "Model" /\ model.by = "model_from_dict" /\ arg = schema
    /\ schema = NestedData(2) /\ IsPlainData(schema)
    /\ Get(Get(Get(out, "inner"), "inner"), "score") = Float

---------------------------------------------------------------------------
(* Properties of the builder on a callable *)

\* the field of the class for a parameter has the parameter's default, or is
\* required when the parameter has none
KeepsDefault(cls, param) ==
    \E j \in 1..Len(cls.fields) :
       /\ cls.fields[j].name = param.name
       /\ IF param.default = Empty THEN IsRequired(cls.fields[j])
          ELSE FieldDefault(cls.fields[j]) = param.default

\* C13: for every annotated parameter of a callable given to
\* model_from_function, the declared default of the parameter (a scalar, None,
\* a list or a dict) is the default of the field of the same name, and a
\* parameter without a default gives a required field.
C13_DeclaredDefaultBecomesFieldDefault ==
    (op = "model_from_function" /\ ~IsRaise(out))
        => \A i \in 1..Len(schema.parameters) :
              schema.parameters[i].annotation # Empty
                 => KeepsDefault(out, schema.parameters[i])
\* the same for the parameters whose default is no dict
C13_NonDictDefaultBecomesFieldDefault ==
    (op = "model_from_function" /\ ~IsRaise(out))
        => \A i \in 1..Len(schema.parameters) :
              (schema.parameters[i].annotation # Empty
               /\ ~IsDict(schema.parameters[i].default))
                 => KeepsDefault(out, schema.parameters[i])

\* docstring parsing is on for the last call of model_from_function
ParsesDocstrings == builder.is_parse_docstrings \/ arg.is_parse_docstrings
\* the parameter has no annotation and the parsed docstring gives it no type
HasNoType(func, param) ==
    /\ param.annotation = Empty
    /\ ParsesDocstrings
          => \A i \in 1..Len(func.docstring_params) :
                func.docstring_params[i].arg_name = param.name
                   => (func.docstring_params[i].type_name = Null
                       /\ ~func.docstring_params[i].is_optional)
\* ... and it is neither self, cls nor **kwargs
IsUntyped(func, param) ==
    /\ HasNoType(func, param)
    /\ param.name \notin {"self", "cls"}
    /\ param.kind # "VAR_KEYWORD"
\* the first such parameter in the order of the signature
FirstUntyped(func) ==
    func.parameters[CHOOSE i \in 1..Len(func.parameters) :
                       /\ IsUntyped(func, func.parameters[i])
                       /\ \A j \in 1..(i - 1) : ~IsUntyped(func, func.parameters[j])]

IsUntypedVariadic(func, param, kinds) ==
    param.kind \in kinds /\ HasNoType(func, param)
\* every other parameter has a type, or is an unannotated self or cls
OnlyVariadicsUntyped(func, kinds) ==
    \A i \in 1..Len(func.parameters) :
       \/ ~HasNoType(func, func.parameters[i])
       \/ func.parameters[i].name \in {"self", "cls"}
       \/ func.parameters[i].kind \in kinds
\* the call does not fail and no field is made for such a parameter
VariadicsIgnored(func, kinds) ==
    /\ ~IsRaise(out)
    /\ \A i \in 1..Len(func.parameters) :
          IsUntypedVariadic(func, func.parameters[i], kinds)
             => func.parameters[i].name \notin FieldNames(out)

\* C15: unannotated variadic parameters never make model_from_function fail
\* and never give a field: on a callable whose other parameters all have a
\* type, an unannotated **kwargs is skipped and an unannotated *args is
\* ignored, the model being built from the other parameters.
C15_UnannotatedVariadicsIgnored ==
    (op = "model_from_function"
     /\ OnlyVariadicsUntyped(schema, {"VAR_KEYWORD", "VAR_POSITIONAL"}))
        => VariadicsIgnored(schema, {"VAR_KEYWORD", "VAR_POSITIONAL"})
\* the same for **kwargs alone
C15_UnannotatedKwargsSkipped ==
    (op = "model_from_function" /\ OnlyVariadicsUntyped(schema, {"VAR_KEYWORD"}))
        => VariadicsIgnored(schema, {"VAR_KEYWORD"})

---------------------------------------------------------------------------
(* Properties of the builder on JSON-schema documents *)

\* the key occurs in the document or in a dict nested in it
RECURSIVE HasKeyAnywhere(_, _)
HasKeyAnywhere(doc, key) ==
    /\ IsDict(doc)
    /\ \/ Has(doc, key)
       \/ \E i \in 1..Len(doc.kv) : HasKeyAnywhere(doc.kv[i].v, key)
\* a parameters key, or schema in a document with a json_schema envelope
HasParametersSection(doc) ==
    IF Has(doc, "json_schema") THEN HasKeyAnywhere(doc, "schema")
    ELSE HasKeyAnywhere(doc, "parameters")

\* C16: model_from_json_schema raises ValueError for every document in which
\* no parameters section can be found (no parameters key, no schema under a
\* json_schema envelope), and builds no model from it.
C16_NoParametersRaisesValueError ==
    (op = "model_from_json_schema" /\ ~HasParametersSection(schema))
        => IsRaise(out) /\ out.exc = "ValueError"
\* ValueError is raised only for parameters that are there and null
C16_ValueErrorOnlyForNull ==
    (op = "model_from_json_schema" /\ IsRaise(out) /\ out.exc = "ValueError")
        => HasParametersSection(schema) /\ Get(schema, "parameters") = Null

---------------------------------------------------------------------------
(* Properties of the mapping of a property *)

\* the table of the field types
RECURSIVE IsTableType(_, _, _, _)
IsTableType(type, d, field_name, parent_model_name) ==
    LET json_type == GetOr(d, "type", Null)
        format == GetOr(d, "format", Null)
    IN CASE json_type = Str("string") ->
              IF Has(d, "enum") THEN type = LiteralOf(Get(d, "enum").it)
              ELSE IF format = Str("date") THEN type = Type("date")
              ELSE IF format = Str("date-time") THEN type = Type("datetime")
              ELSE IF format = Str("email") THEN type = Type("EmailStr")
              ELSE IF format = Str("uri") THEN type = Type("AnyUrl")
              ELSE type = Type("str")
         [] json_type = Str("integer") -> type = Type("int")
         [] json_type = Str("number") -> type = Type("float")
         [] json_type = Str("boolean") -> type = Type("bool")
         [] json_type = Str("array") ->
              /\ type.t = "List"
              /\ IsTableType(type.item, GetOr(d, "items", Dict(<<>>)),
                             field_name \o "_item", parent_model_name)
         [] json_type = Str("object") ->
              /\ IsModel(type)
              /\ type.name = parent_model_name \o "_" \o Capitalize(field_name)
              /\ Len(type.fields) = Len(GetOr(d, "properties", Dict(<<>>)).kv)
              /\ \A i \in 1..Len(type.fields) :
                    /\ type.fields[i].name = Get(d, "properties").kv[i].k
                    /\ IsTableType(type.fields[i].type, Get(d, "properties").kv[i].v,
                                   type.fields[i].name, type.name)
         [] OTHER -> type = Type("Any")

\* the keyword map: JSON-schema keyword, name of the constraint
KeywordMap ==
    {<<"minLength", "min_length">>, <<"minItems", "min_length">>,
     <<"maxLength", "max_length">>, <<"maxItems", "max_length">>,
     <<"minimum", "ge">>, <<"maximum", "le">>, <<"multipleOf", "multiple_of">>,
     <<"pattern", "pattern">>}
\* a constraint for exactly the keywords that occur in d, under the name the
\* map gives, with the value of the keyword
HasTheConstraintsOf(constraints, d) ==
    /\ \A p \in KeywordMap : Has(d, p[1]) => Has(constraints, p[2])
    /\ \A name \in KeySet(constraints) :
          \E p \in KeywordMap :
             p[2] = name /\ Has(d, p[1]) /\ Get(constraints, name) = Get(d, p[1])

\* C17: for every property description d, _map_json_type_to_python returns
\* the field type of the table (string with enum: the literal of the enum
\* values; string with format date, date-time, email, uri: date, datetime,
\* EmailStr, AnyUrl; other string: str; integer: int; number: float; boolean:
\* bool; array: list of the mapped item type; object: nested model named
\* parent_Field; no or unknown type: Any) and a field info with a constraint
\* for exactly the keywords that occur in d, renamed by the keyword map.
C17_TypeAndConstraintsByTable ==
    op = "_map_json_type_to_python"
        => /\ IsTableType(out[1], schema, arg.field_name, arg.parent_model_name)
           /\ HasTheConstraintsOf(out[2].constraints, schema)
\* {type: integer, minimum: 1, maximum: 100} gives int with {ge: 1, le: 100}
C17_Witness ==
    /\ op = "_map_json_type_to_python"
    /\ schema = Dict(<<KV("type", Str("integer")), KV("minimum", Num(1)),
                       KV("maximum", Num(100))>>)
    /\ out[1] = Type("int")
    /\ out[2].constraints = Dict(<<KV("ge", Num(1)), KV("le", Num(100))>>)

---------------------------------------------------------------------------
(* Properties of the model classes *)

\* model_json_schema() was called without argument on a class that no
\* generator was bound to
RenderedWithoutArgument ==
    arg.schema_generator = "None" /\ arg.cls._schema_generator = "None"

\* C18: a model derived from a dialect base model, a model that ModelBuilder
\* built with that base_model included, renders through model_json_schema()
\* without a schema_generator argument in the dialect of the base: the
\* document is the one the base's schema generator generates.
C18_RendersInDialectOfBase ==
    (op = "model_json_schema" /\ RenderedWithoutArgument
     /\ arg.cls.schema_generator # "None")
        => out = Generate(arg.cls.schema_generator, JsonSchemaOf(arg.cls), options)
\* without argument and without bound generator every class renders through
\* the compatibility generator
C18_RendersThroughCompatibility ==
    (op = "model_json_schema" /\ RenderedWithoutArgument)
        => out = Generate("Compatibility", JsonSchemaOf(arg.cls), options)

\* the data has a nested container: a dict or a list of dicts as a value
HasNestedContainer(data) ==
    \E i \in 1..Len(data.kv) :
       \/ IsDict(data.kv[i].v)
       \/ IsList(data.kv[i].v) /\ \E j \in 1..Len(data.kv[i].v.it) :
                                     IsDict(data.kv[i].v.it[j])
\* the steps of the round trip after model_json_schema() on the class built
\* from nested data on a builder whose base is GenericBaseModel, with the
\* options as the module defines them
InRoundTrip ==
    /\ op \in {"model_from_json_schema", "Model"}
    /\ builder.base_model = GenericBaseModel
    /\ HasNestedContainer(schema)
    /\ RenderedWithoutArgument
    /\ options = DefaultOptions

\* C19: for example data with nested containers (a list of dicts, say),
\* building a class with model_from_dict on a builder whose base is
\* GenericBaseModel, rendering it with model_json_schema() and giving the
\* document to model_from_json_schema succeeds, and the class it yields
\* validates the original data with the same nested values.
C19_SchemaToModelRoundTrip ==
    InRoundTrip => ~IsRaise(out) /\ (op = "Model" => SameLeaves(out, schema))
\* the round trip ends with NotImplementedError as long as references are
\* not inlined, and succeeds when they are
C19_RoundTripNeedsInlinedRefs ==
    (op \in {"model_from_json_schema", "Model"} /\ HasNestedContainer(schema)
     /\ RenderedWithoutArgument)
        => IF options["is_inlined_refs"]
           THEN ~IsRaise(out) /\ (op = "Model" => SameLeaves(out, schema))
           ELSE IsRaise(out) /\ out.exc = "NotImplementedError"

---------------------------------------------------------------------------
(* Properties of the dialects under the options *)

LenientGenerators == {"Generic", "Anthropic", "Google", "OpenAi"}
\* the schema inside the envelope of a lenient dialect
ParametersOfLenient ==
    CASE op \in {"Generic", "Google"} -> Get(out, "parameters")
      [] op = "Anthropic" -> Get(out, "input_schema")
      [] op = "OpenAi" -> Get(Get(out, "function"), "parameters")
\* the document has the definitions and the references of the schema
KeepsDefsAndRefs(json, base) ==
    /\ Has(json, "$defs")
    /\ KeySet(Get(json, "$defs")) = KeySet(Get(base, "$defs"))
    /\ RefValues(json) = RefValues(base)

\* C20: the lenient dialects (Generic, Anthropic, Google, OpenAi) keep the
\* $defs section and the $ref nodes of a model with nested sub-models, in
\* every reachable state: whatever values is_inlined_refs, is_reordered_keys
\* and is_removed_titles have on CompatibilitySchemaGenerator.
C20_LenientKeepDefsAndRefs ==
    op \in LenientGenerators => KeepsDefsAndRefs(ParametersOfLenient, schema)
\* they keep them in the states where is_inlined_refs is False, and OpenAi,
\* which sets its own is_inlined_refs, in every state
C20_LenientKeepUnlessInlined ==
    (op \in LenientGenerators /\ (op = "OpenAi" \/ ~options["is_inlined_refs"]))
        => KeepsDefsAndRefs(ParametersOfLenient, schema)

---------------------------------------------------------------------------
(* Properties of key reordering *)

\* the keys of a node stand in priority order: the priority keys that are
\* present, in the order of key_order, then the other keys as they were
InKeyOrder(n) == Keys(n) = OrderedKeys(n) \o RemainingKeys(n)

\* the nodes of a document that stand inside a list (anyOf and allOf members)
RECURSIVE NodesInLists(_)
NodesInLists(json) ==
    IF IsDict(json)
    THEN UNION {NodesInLists(json.kv[i].v) : i \in 1..Len(json.kv)}
    ELSE IF IsList(json) THEN UNION {AllNodes(json.it[i]) : i \in 1..Len(json.it)}
    ELSE {}

\* C21: in the parameters a strict dialect renders (key reordering is on),
\* every node at every depth, the members of anyOf and allOf lists included,
\* has its keys in priority order.
C21_EveryNodeInKeyOrder ==
    (op \in StrictDialects /\ ~IsRaise(out)) =>
        \A n \in AllNodes(StrictParameters) : InKeyOrder(n)

\* C21, outside lists: every node that is reached through dict values only has
\* its keys in priority order.
C21_NodesOutsideListsInKeyOrder ==
    (op \in StrictDialects /\ ~IsRaise(out)) =>
        \A n \in AllNodes(StrictParameters) \ NodesInLists(StrictParameters) :
            InKeyOrder(n)

---------------------------------------------------------------------------
(* Properties of title stripping *)

\* no node of the document has a title keyword with a string value
NoStringTitle(json) ==
    \A n \in AllNodes(json) : Has(n, "title") => ~IsStr(Get(n, "title"))

\* the properties of the model itself, in the generated and the rendered document
PropertiesOfModel(json) ==
    IF Has(json, "$ref") /\ ~Has(json, "properties")
    THEN GetOr(GetOr(Definitions(json), RefKey(Get(json, "$ref").s), Dict(<<>>)),
               "properties", Dict(<<>>))
    ELSE RootProperties(json)

\* the title of the model class: at the top of the generated document, or in
\* the definition the top refers to when the class is recursive
TitleOfModel(json) ==
    IF Has(json, "title") THEN Get(json, "title")
    ELSE Get(Get(Definitions(json), RefKey(Get(json, "$ref").s)), "title")

\* the envelope that carries name and parameters
StrictEnvelope ==
    CASE op = "StrictBase" -> out
      [] op = "OpenAiStrict" -> Get(out, "function")
      [] op = "OpenAiResponseFormat" -> Get(out, "json_schema")
      [] OTHER -> Null

KeepsPropertyNamedTitle ==
    Has(PropertiesOfModel(schema), "title") =>
        Has(PropertiesOfModel(StrictParameters), "title")

\* C22: in a strict dialect the rendered parameters have no title keyword with
\* a string value at any depth, a property named title is kept, and the name
\* of the envelope is the title of the model.
C22_TitlesStrippedAndNameIsTitle ==
    (op \in StrictDialects /\ ~IsRaise(out)) =>
        /\ NoStringTitle(StrictParameters)
        /\ KeepsPropertyNamedTitle
        /\ Get(StrictEnvelope, "name") = TitleOfModel(schema)

\* C22 without the name: the titles are stripped and a property named title is kept
C22_TitlesStripped ==
    (op \in StrictDialects /\ ~IsRaise(out)) =>
        /\ NoStringTitle(StrictParameters)
        /\ KeepsPropertyNamedTitle

\* C22 for a model whose generated document has a title at its top
C22_NameIsTopLevelTitle ==
    (op \in StrictDialects /\ ~IsRaise(out) /\ Has(schema, "title")) =>
        Get(StrictEnvelope, "name") = Get(schema, "title")

---------------------------------------------------------------------------
(* Properties of the Anthropic dialect *)

\* the envelope of the Anthropic dialect: exactly name, description and
\* input_schema (so no parameters, no function, no strict)
IsAnthropicEnvelope(json) ==
    /\ IsDict(json)
    /\ KeySet(json) = {"name", "description", "input_schema"}
    /\ Len(json.kv) = 3

\* C23: the Anthropic dialect renders name, description and input_schema and
\* nothing else; input_schema is the parameter schema and has type "object",
\* name is the title of the model ("function" if it has none) and description
\* its description ("" if it has none).
C23_AnthropicEnvelope ==
    op = "Anthropic" =>
        /\ IsAnthropicEnvelope(out)
        /\ GetOr(Get(out, "input_schema"), "type", Null) = Str("object")
        /\ Get(out, "name") = TitleOfModel(schema)
        /\ Get(out, "description") = GetOr(schema, "description", Str(""))

\* C23 for a model that is not recursive, so that the generated document has
\* its type and title at the top
C23_AnthropicEnvelopeOfPlainModel ==
    (op = "Anthropic" /\ Has(schema, "type")) =>
        /\ IsAnthropicEnvelope(out)
        /\ Get(Get(out, "input_schema"), "type") = Str("object")
        /\ Get(out, "input_schema") = Pop(Pop(schema, "title"), "description")
        /\ Get(out, "name") = GetOr(schema, "title", Str("function"))
        /\ Get(out, "description") = GetOr(schema, "description", Str(""))

\* C23, the envelope alone
C23_AnthropicKeys ==
    op = "Anthropic" => IsAnthropicEnvelope(out)

---------------------------------------------------------------------------
(* The passes as they act on the object they are given: what the argument    *)
(* holds once the call has returned.                                          *)

\* lines 84-86: the priority keys are popped from the argument itself; the
\* values that stay are put through the pass, which pops theirs
RECURSIVE _reorder_keys_argument(_)
_reorder_keys_argument(json) ==
    IF ~IsDict(json) THEN json
    ELSE Dict([i \in 1..Len(RemainingKeys(json)) |->
                 KV(RemainingKeys(json)[i],
                    _reorder_keys_argument(Get(json, RemainingKeys(json)[i])))])

\* lines 131-178: every write goes to json_schema, which is what is returned
_ensure_strict_json_schema_argument(json) == _ensure_strict_json_schema(json)

\* lines 56-73 and 79: every write goes to schema, which is what is returned
_inline_references_argument(json, definitions) ==
    _inline_references(json, definitions, {}).doc

\* lines 103-114 and 118: every write goes to schema, which is what is returned
_inline_all_of_argument(json) == _inline_all_of(json)

\* lines 91-96: the pass fills a new dict and leaves the argument alone
_remove_target_key_argument(json, target_key) == json

\* lines 43-49: the object the earlier passes worked on, once generate has
\* returned: line 44 rebinds json_schema to the new dict of _reorder_keys,
\* line 46 pops the title and line 47 rebinds
WorkingDocument(g, json, opts) ==
    IF IsRaise(json) THEN json
    ELSE IF ClassAttr(g, "is_reordered_keys", opts) THEN _reorder_keys_argument(json)
    ELSE IF ClassAttr(g, "is_removed_titles", opts) THEN Pop(json, "title")
    ELSE json

\* the class's document after a render, if line 35 handed that very object
\* to the chain
SuperGenerate_Shared(g, base, opts) ==
    WorkingDocument(g, InlineStep(g, StrictStep(g, base, opts), opts), opts)
\* line 35: super().generate(schema, mode) builds the document anew on every
\* call, so the class's document is what it was
SuperGenerate(g, base, opts) == base

---------------------------------------------------------------------------
(* One model class rendered again and again *)

\* StrictBaseSchemaGenerator and its subclasses (lines 209, 235, 251, 266)
StrictFamily == {"StrictBase", "OpenAiStrict", "OpenAiResponseFormat", "OpenAi"}

\* the model classes: one field that is a string, a sub-model, a list of
\* sub-models or a described sub-model; the sub-model with or without a
\* sub-model of its own
RepeatSchemas ==
    {ModelSchema(fields, <<"inner">>, link, "ignore") :
        fields \in [1..1 -> RefKinds],
        link \in {NoLinks, [NoLinks EXCEPT !["InnerModel"] = "Node"]}}

InitRepeat ==
    /\ schema \in RepeatSchemas
    /\ op = "none"
    /\ arg = Null
    /\ out = Null
    /\ options = DefaultOptions
    /\ builder = DefaultBuilder
    /\ model = NoModel
    /\ rendered = NoRenders
    /\ func_dispatch = NoTools

\* the first document of a generator class, and whether it rendered again
FirstRender(document) == [document |-> document, again |-> FALSE]
Again(first) == [first EXCEPT !.again = TRUE]

\* Model.model_json_schema(schema_generator=g), once more
RenderAgain(g) ==
    /\ op' = g
    /\ out' = Generate(g, schema, options)
    /\ schema' = SuperGenerate(g, schema, options)
    /\ rendered' = IF g \notin StrictFamily THEN rendered
                   ELSE IF rendered[g] = Null
                   THEN [rendered EXCEPT ![g] = FirstRender(out')]
                   ELSE [rendered EXCEPT ![g] = Again(rendered[g])]
    /\ UNCHANGED <<arg, options, builder, model, func_dispatch>>

NextRepeat == \E g \in StrictFamily \cup {"Compatibility"} : RenderAgain(g)

SpecRepeat == InitRepeat /\ [][NextRepeat]_vars

RenderedAgain(g) == rendered[g] # Null /\ rendered[g].again

---------------------------------------------------------------------------
(* ToolDispatch (dispatch.py) and the tool wrappers (decorators.py).  A       *)
(* dispatcher is its base_model and its func_dispatch, an ordered mapping     *)
(* from key to tool.                                                          *)

\* a plain callable
Function(name, is_async) == [t |-> "function", __name__ |-> name, is_async |-> is_async]

\* decorators.py lines 36-58: ToolWrapperBase.__init__ with a function; the model
\* is built with model_name = self.name (lines 60-66), so _model is its title
Wrapper(class, func, name, base_model) ==
    [t |-> class, func |-> func.__name__, base_model |-> base_model.name,
     name |-> IF name = Null THEN func.__name__ ELSE name.s,
     _model |-> IF name = Null THEN func.__name__ ELSE name.s]

\* isinstance(func, ToolWrapperBase)
IsToolWrapperBase(func) == func.t \in {"ToolWrapper", "AsyncToolWrapper"}

_wrap_func_Renaming(self, func, name) ==
    IF IsToolWrapperBase(func)
    THEN IF name = Null THEN func ELSE [func EXCEPT !.name = name.s, !._model = name.s]
    ELSE Wrapper(IF func.is_async THEN "AsyncToolWrapper" ELSE "ToolWrapper",
                 func, name, self.base_model)
\* dispatch.py lines 84-92; name is the keyword argument of __setitem__, absent
\* (None) in __init__
_wrap_func(self, func, name) ==
    IF IsToolWrapperBase(func) THEN func
    ELSE IF self.base_model = Null THEN Raise("ValueError")
    ELSE Wrapper(IF func.is_async THEN "AsyncToolWrapper" ELSE "ToolWrapper",
                 func, name, self.base_model)

\* dispatch.py lines 50-54: the loop of __init__ over funcs
RECURSIVE WrapAll(_, _, _)
WrapAll(self, funcs, i) ==
    IF i > Len(funcs) THEN self
    ELSE IF IsRaise(_wrap_func(self, funcs[i], Null)) THEN _wrap_func(self, funcs[i], Null)
    ELSE IF Has(self.func_dispatch, _wrap_func(self, funcs[i], Null).name)
    THEN Raise("ValueError")
    ELSE WrapAll([self EXCEPT !.func_dispatch =
                     Set(@, _wrap_func(self, funcs[i], Null).name,
                         _wrap_func(self, funcs[i], Null))],
                 funcs, i + 1)

\* dispatch.py lines 37-54: ToolDispatch(*funcs, base_model=base_model)
ToolDispatch(funcs, base_model) ==
    WrapAll([t |-> "ToolDispatch", base_model |-> base_model,
             func_dispatch |-> Dict(<<>>)], funcs, 1)

\* dispatch.py lines 64-67: self[key] = value
__setitem__(self, key, value) ==
    IF IsRaise(_wrap_func(self, value, Str(key))) THEN _wrap_func(self, value, Str(key))
    ELSE [self EXCEPT !.func_dispatch = Set(@, key, _wrap_func(self, value, Str(key)))]

\* dispatch.py lines 72-80: self | other
__or__(self, other) ==
    ToolDispatch(Values(self.func_dispatch) \o Values(other.func_dispatch),
                 IF other.base_model # Null THEN other.base_model ELSE self.base_model)

\* dispatch.py lines 94-96: the schema of every tool, Model.model_json_schema()
\* through the generator of the tool's base model
schemas(self) ==
    [i \in 1..Len(self.func_dispatch.kv) |->
        Dict(<<KV("type", Str("function")),
               KV("function",
                  Dict(<<KV("name", Str(self.func_dispatch.kv[i].v._model))>>))>>)]

---------------------------------------------------------------------------
(* Operations of a dispatcher *)

MaxTools == 2

get_weather == Function("get_weather", FALSE)
used_name == Function("used_name", FALSE)
async_tool == Function("async_tool", TRUE)
\* what a caller may register: plain callables and a tool wrapped beforehand
ToolValues ==
    {get_weather, used_name, async_tool,
     Wrapper("ToolWrapper", get_weather, Null, OpenAiBaseModel)}
ToolKeys == {"x", "get_weather", "used_name"}

\* the dispatchers built from at most MaxTools of the values
Dispatchers ==
    {d \in {ToolDispatch(funcs, OpenAiBaseModel) :
               funcs \in UNION {[1..n -> ToolValues] : n \in 0..MaxTools}} :
       ~IsRaise(d)}

\* the dispatcher in the state
Self == [t |-> "ToolDispatch", base_model |-> OpenAiBaseModel,
     func_dispatch |-> func_dispatch]

InitDispatch ==
    /\ schema = Null
    /\ op = "ToolDispatch"
    /\ arg = Null
    /\ out = Null
    /\ options = DefaultOptions
    /\ builder = DefaultBuilder
    /\ model = NoModel
    /\ rendered = NoRenders
    /\ func_dispatch \in {d.func_dispatch : d \in Dispatchers}

\* tools[key] = value
SetItem(key, value) ==
    /\ Len(func_dispatch.kv) < MaxTools + 1 \/ Has(func_dispatch, key)
    /\ op' = "__setitem__"
    /\ arg' = [key |-> key, value |-> value]
    /\ out' = Null
    /\ func_dispatch' = __setitem__(Self, key, value).func_dispatch
    /\ UNCHANGED <<schema, options, builder, model, rendered>>

\* tools.pop(key): lines 98-101
PopTool(key) ==
    /\ op' = "pop"
    /\ arg' = [key |-> key]
    /\ out' = IF Has(func_dispatch, key) THEN Get(func_dispatch, key)
              ELSE Raise("KeyError")
    /\ func_dispatch' = Pop(func_dispatch, key)
    /\ UNCHANGED <<schema, options, builder, model, rendered>>

\* tools.clear(): lines 103-105
Clear ==
    /\ op' = "clear"
    /\ arg' = Null
    /\ out' = Null
    /\ func_dispatch' = Dict(<<>>)
    /\ UNCHANGED <<schema, options, builder, model, rendered>>

\* tools = tools | other
Union(other) ==
    /\ Len(func_dispatch.kv) + Len(other.func_dispatch.kv) <= MaxTools + 1
    /\ op' = "__or__"
    /\ arg' = other.func_dispatch
    /\ out' = IF IsRaise(__or__(Self, other)) THEN __or__(Self, other) ELSE Null
    /\ func_dispatch' = IF IsRaise(__or__(Self, other)) THEN func_dispatch
                        ELSE __or__(Self, other).func_dispatch
    /\ UNCHANGED <<schema, options, builder, model, rendered>>

\* tools.schemas
Schemas ==
    /\ op' = "schemas"
    /\ arg' = Null
    /\ out' = List(schemas(Self))
    /\ UNCHANGED <<schema, options, builder, model, rendered, func_dispatch>>

NextDispatch ==
    \/ \E key \in ToolKeys, value \in ToolValues : SetItem(key, value)
    \/ \E key \in ToolKeys : PopTool(key)
    \/ Clear
    \/ \E other \in Dispatchers : Union(other)
    \/ Schemas

SpecDispatch == InitDispatch /\ [][NextDispatch]_vars

---------------------------------------------------------------------------
(* Properties of the dispatcher *)

\* C25: every tool of the dispatcher is stored under its own name, and the
\* schema rendered for it carries that name.
C25_ToolsStoredUnderTheirName ==
    /\ \A i \in 1..Len(func_dispatch.kv) :
          func_dispatch.kv[i].v.name = func_dispatch.kv[i].k
    /\ op = "schemas" =>
          \A i \in 1..Len(func_dispatch.kv) :
              Get(Get(out.it[i], "function"), "name") = Str(func_dispatch.kv[i].k)

\* C25 for plain callables: a tool that the dispatcher wrapped itself is
\* stored under its own name
C25_OwnWrappersStoredUnderTheirName ==
    \A i \in 1..Len(func_dispatch.kv) :
        func_dispatch.kv[i].v.name # func_dispatch.kv[i].k =>
            func_dispatch.kv[i].v = Wrapper("ToolWrapper", get_weather, Null, OpenAiBaseModel)

---------------------------------------------------------------------------
(* The passes one by one, in the order of generate (lines 37-47).  Each pass  *)
(* is given the document the chain holds: the generated document at first,    *)
(* then what the pass before returned.  After a pass, schema is the object    *)
(* the pass was given as the call left it, arg records it as it was given     *)
(* and out is what the pass returned.                                         *)

\* the model classes: strings, sub-models, a list of dicts, a described
\* sub-model with a condition; two properties are named like keywords
PassKinds ==
    {[kind |-> "str"], [kind |-> "ref", to |-> "InnerModel"],
     [kind |-> "array", to |-> "InnerModel"], [kind |-> "allof", to |-> "InnerModel"],
     [kind |-> "rows"], [kind |-> "conditional", to |-> "InnerModel"]}
PassDocuments ==
    {ModelSchema(fields, <<"age", "title", "name">>, link, "ignore") :
        fields \in FieldLists(PassKinds),
        link \in {NoLinks, [NoLinks EXCEPT !["InnerModel"] = "Node"]}}

\* the place of each pass in generate
Stage(name) ==
    CASE name = "none" -> 0
      [] name = "_ensure_strict_json_schema" -> 1
      [] name = "_inline_references" -> 2
      [] name = "_inline_all_of" -> 3
      [] name = "_reorder_keys" -> 4
      [] name = "_remove_target_key" -> 5

\* json_schema: the document the chain holds
Current == IF op = "none" THEN schema ELSE out

InitPasses ==
    /\ schema \in PassDocuments
    /\ op = "none"
    /\ arg = Null
    /\ out = Null
    /\ options = DefaultOptions
    /\ builder = DefaultBuilder
    /\ model = NoModel
    /\ rendered = NoRenders
    /\ func_dispatch = NoTools

\* line 38
CallEnsureStrict ==
    /\ Stage(op) < 1
    /\ ~IsRaise(_ensure_strict_json_schema(Current))
    /\ op' = "_ensure_strict_json_schema"
    /\ arg' = [json |-> Current]
    /\ out' = _ensure_strict_json_schema(Current)
    /\ schema' = _ensure_strict_json_schema_argument(Current)
    /\ UNCHANGED <<options, builder, model, rendered, func_dispatch>>

\* lines 40-41: the definitions are popped, then the references inlined
CallInlineReferences ==
    /\ Stage(op) < 2
    /\ Has(Current, "$defs")
    /\ ~IsRaise(_inline_references(Pop(Current, "$defs"), Get(Current, "$defs"), {}).doc)
    /\ op' = "_inline_references"
    /\ arg' = [json |-> Pop(Current, "$defs"), definitions |-> Get(Current, "$defs")]
    /\ out' = _inline_references(Pop(Current, "$defs"), Get(Current, "$defs"), {}).doc
    /\ schema' = _inline_references_argument(Pop(Current, "$defs"), Get(Current, "$defs"))
    /\ UNCHANGED <<options, builder, model, rendered, func_dispatch>>

\* line 42
CallInlineAllOf ==
    /\ op = "_inline_references"
    /\ op' = "_inline_all_of"
    /\ arg' = [json |-> Current]
    /\ out' = _inline_all_of(Current)
    /\ schema' = _inline_all_of_argument(Current)
    /\ UNCHANGED <<options, builder, model, rendered, func_dispatch>>

\* line 44
CallReorderKeys ==
    /\ Stage(op) < 4 /\ op # "_inline_references"
    /\ op' = "_reorder_keys"
    /\ arg' = [json |-> Current]
    /\ out' = _reorder_keys(Current)
    /\ schema' = _reorder_keys_argument(Current)
    /\ UNCHANGED <<options, builder, model, rendered, func_dispatch>>

\* line 47
CallRemoveTitles ==
    /\ Stage(op) < 5 /\ op # "_inline_references"
    /\ op' = "_remove_target_key"
    /\ arg' = [json |-> Current]
    /\ out' = _remove_target_key(Current, "title")
    /\ schema' = _remove_target_key_argument(Current, "title")
    /\ UNCHANGED <<options, builder, model, rendered, func_dispatch>>

NextPasses ==
    \/ CallEnsureStrict
    \/ CallInlineReferences
    \/ CallInlineAllOf
    \/ CallReorderKeys
    \/ CallRemoveTitles

SpecPasses == InitPasses /\ [][NextPasses]_vars

---------------------------------------------------------------------------
(* Properties of the passes *)

\* the nodes reached from a node through property values, array items, anyOf
\* and allOf members, $defs and definitions entries
RECURSIVE SchemaNodes(_)
SchemaNodes(json) ==
    IF ~IsDict(json) THEN {}
    ELSE StrictNodes(json)
         \cup UNION {SchemaNodes(Get(n, "items")) :
                        n \in {m \in StrictNodes(json) : Has(m, "items")}}

\* the strict rules as they show on a node
IsStrictNode(n) ==
    /\ IsObjectNode(n) => Has(n, "additionalProperties")
    /\ AllPropertiesRequired(n)

\* C26: after the strict-mode pass every object node reached from the root
\* through property values, array items, anyOf and allOf members, $defs and
\* definitions entries carries additionalProperties, and every such node with
\* properties requires them all.
C26_StrictRulesReachEveryNode ==
    op = "_ensure_strict_json_schema" =>
        \A n \in SchemaNodes(out) : IsStrictNode(n)

\* C26 without the array items: the nodes the pass is called on
C26_StrictRulesReachVisitedNodes ==
    op = "_ensure_strict_json_schema" =>
        \A n \in StrictNodes(out) : IsStrictNode(n)

---------------------------------------------------------------------------
(* Operations on the documents _extract_schema_details is given: a tool or a  *)
(* bare schema, with or without its name and description, plain or wrapped    *)
(* in the envelope of a dialect.                                              *)

\* the object schema of the tool: one property, with or without a
\* description of its own
ExtractParameters(property, described) ==
    ObjectSchema(<<KV(property,
                      Dict(<<KV("type", Str("string"))>>
                           \o (IF described
                               THEN <<KV("description", Str("The " \o property))>>
                               ELSE <<>>)))>>,
                 <<property>>)

\* the top-level keys that are there, then the parameters
ExtractDocument(top, parameters) ==
    Dict((IF "name" \in top THEN <<KV("name", Str("M"))>> ELSE <<>>)
         \o (IF "description" \in top THEN <<KV("description", Str("a tool"))>>
             ELSE <<>>)
         \o <<KV("parameters", parameters)>>)

ExtractDocuments ==
    LET parameters == {ExtractParameters(p, d) :
                          p \in {"name", "description", "age", "parameters"},
                          d \in BOOLEAN}
        tools == {ExtractDocument(top, p) :
                     top \in SUBSET {"name", "description"}, p \in parameters}
    IN tools
       \cup {Dict(<<KV("type", Str("function")), KV("function", t)>>) : t \in tools}
       \cup {Dict(<<KV("title", Str("M"))>> \o p.kv) : p \in parameters}
       \cup {Dict(<<KV("type", Str("json_schema")),
                    KV("json_schema",
                       Dict(<<KV("name", Str("M")), KV("strict", Bool(TRUE)),
                              KV("schema", p)>>))>>) : p \in parameters}

InitExtract ==
    /\ schema \in ExtractDocuments
    /\ op = "none"
    /\ arg = Null
    /\ out = Null
    /\ options = DefaultOptions
    /\ builder = DefaultBuilder
    /\ model = NoModel
    /\ rendered = NoRenders
    /\ func_dispatch = NoTools

\* ModelBuilder()._extract_schema_details(schema)
ExtractSchemaDetails ==
    /\ op' = "_extract_schema_details"
    /\ out' = _extract_schema_details(schema)
    /\ UNCHANGED <<schema, arg, options, builder, model, rendered, func_dispatch>>

NextExtract == ExtractSchemaDetails

SpecExtract == InitExtract /\ [][NextExtract]_vars

---------------------------------------------------------------------------
(* Properties of _extract_schema_details *)

\* lines 180-182: the keys that are looked for, in the order of the triple
\* (the inner schema is looked for as "schema" below a json_schema key)
KeysToFind(json) ==
    <<IF Has(json, "title") THEN "title" ELSE "name", "description",
      IF Has(json, "json_schema") THEN "schema" ELSE "parameters">>

\* C27: a name or title, a description and a parameters or schema key that the
\* document has at its top level is returned with its top-level value.
C27_TopLevelValueWins ==
    op = "_extract_schema_details" =>
        \A i \in 1..3 :
            Has(schema, KeysToFind(schema)[i]) =>
                out[i] = Get(schema, KeysToFind(schema)[i])

\* C27 for a document that has all three keys at its top level
C27_CompleteTopLevelWins ==
    (op = "_extract_schema_details"
       /\ \A i \in 1..3 : Has(schema, KeysToFind(schema)[i])) =>
        \A i \in 1..3 : out[i] = Get(schema, KeysToFind(schema)[i])

---------------------------------------------------------------------------
(* Properties of the collapsing of allOf wrappers *)

\* a node with an allOf list of exactly one member, a mapping
IsWrapper(n) ==
    /\ Has(n, "allOf") /\ IsList(Get(n, "allOf"))
    /\ Len(Get(n, "allOf").it) = 1
    /\ IsDict(Get(n, "allOf").it[1])

\* the wrappers that stand below another wrapper, outside its member
WrappersBesideTheMember(json) ==
    UNION {UNION {{m \in AllNodes(n.kv[i].v) : IsWrapper(m)} :
                     i \in {j \in 1..Len(n.kv) : n.kv[j].k # "allOf"}} :
              n \in {w \in AllNodes(json) : IsWrapper(w)}}

\* the properties of the root that are wrappers keep their other keys and
\* have the keys of the member
KeepsKeysOfWrappers(before, after) ==
    \A k \in KeySet(RootProperties(before)) :
        IsWrapper(Get(RootProperties(before), k)) =>
            /\ KeySet(Get(RootProperties(before), k)) \ {"allOf"}
                  \subseteq KeySet(Get(RootProperties(after), k))
            /\ KeySet(Get(Get(RootProperties(before), k), "allOf").it[1])
                  \subseteq KeySet(Get(RootProperties(after), k))

\* C28: after the inlining pass no node at any depth is an allOf wrapper of
\* one mapping, and the nodes that were wrappers have kept their other keys.
C28_NoWrapperIsLeft ==
    op = "_inline_all_of" =>
        /\ \A n \in AllNodes(out) : ~IsWrapper(n)
        /\ KeepsKeysOfWrappers(arg.json, out)

\* C28 for the documents in which no wrapper stands below another wrapper
\* outside its member
C28_NoWrapperIsLeftInTheMembers ==
    (op = "_inline_all_of" /\ WrappersBesideTheMember(arg.json) = {}) =>
        /\ \A n \in AllNodes(out) : ~IsWrapper(n)
        /\ KeepsKeysOfWrappers(arg.json, out)

---------------------------------------------------------------------------
(* The passes and their argument *)

PassNames == {"_ensure_strict_json_schema", "_inline_references", "_inline_all_of",
              "_reorder_keys", "_remove_target_key"}

\* C29: a pass leaves the document it was given as it was: after the call the
\* argument equals what was passed.
C29_PassesLeaveTheirArgumentAlone ==
    op \in PassNames => schema = arg.json

\* C29 for _remove_target_key, which builds a new document
C29_RemoveTargetKeyLeavesItsArgumentAlone ==
    op = "_remove_target_key" => schema = arg.json

\* the passes that write to their argument return that very object, so
\* argument and result are the same; _reorder_keys empties its argument of
\* the priority keys
C29_ArgumentIsTheResultOrEmptied ==
    /\ op \in {"_ensure_strict_json_schema", "_inline_references", "_inline_all_of"}
          => schema = out
    /\ op = "_reorder_keys" =>
          \A n \in AllNodes(schema) \ NodesInLists(schema) : OrderedKeys(n) = <<>>

---------------------------------------------------------------------------
(* Properties of key reordering: the property names *)

\* the property names of the model, in the generated document and in the
\* rendered parameters
PropertyNamesKept(before, after) ==
    Keys(RootProperties(after)) = Keys(RootProperties(before))

\* C30: in a strict dialect the property names of the model stand in their
\* declaration order, which is the order of required.
C30_PropertiesKeepDeclarationOrder ==
    (op \in StrictDialects /\ ~IsRaise(out) /\ Has(schema, "properties")) =>
        /\ PropertyNamesKept(schema, StrictParameters)
        /\ Get(StrictParameters, "required")
              = StrList(Keys(RootProperties(StrictParameters)))

\* C30 for a model none of whose properties is named like a priority keyword
C30_OtherNamesKeepDeclarationOrder ==
    (op \in StrictDialects /\ ~IsRaise(out) /\ Has(schema, "properties")
       /\ OrderedKeys(RootProperties(schema)) = <<>>) =>
        /\ PropertyNamesKept(schema, StrictParameters)
        /\ Get(StrictParameters, "required")
              = StrList(Keys(RootProperties(StrictParameters)))

====
